---- MODULE Spec2Model ----
(***************************************************************************)
(* A model of rust-gameboy: the CPU (src/src/cpu.rs), its register set     *)
(* (src/src/regset.rs), the memory (src/src/mem.rs), the GPU timing        *)
(* automaton (src/src/gpu.rs) and the driver loop (src/src/main.rs).       *)
(*                                                                         *)
(* Strings of the source that the code inspects character by character     *)
(* (operand descriptors such as "(HL+)", register names) are sequences of  *)
(* one-character strings, so that arg_parse is modelled by what it does.   *)
(***************************************************************************)
EXTENDS Integers, Sequences, FiniteSets, TLC

VARIABLES
    cpu,              \* GBCpu: sp, pc, mem, registers, stop_flag, last_op_cycles (+ fault)
    gpu,              \* GBGpu: mode, cycles, drawing_line
    turn,             \* position of the driver loop: "cpu" or "gpu" is called next,
                      \* "ended" once the loops have been left
    overflow_checks,  \* build profile: TRUE = arithmetic overflow panics, FALSE = it wraps
    pre,              \* history: the CPU as it was before the latest cpu.step()
    gpre,             \* history: GPU, request byte and cost seen by the latest gpu.step()
    win,              \* history: cycles, start line and phases since the latest OAM/0 boundary
    vrun,             \* history: line periods spent in VBLANK since it was entered
    lclk,             \* history: cycles between line changes while every cost is 4
    applied,          \* history: cpu.step() calls applied to a drawn CPU state (SpecCpu)
    call              \* history: the latest direct call of a public method (SpecApi)

vars == <<cpu, gpu, turn, overflow_checks, pre, gpre, win, vrun, lclk, applied, call>>

----------------------------------------------------------------------------
(* Fixed-width integers and bit operations                                 *)

U8(n)  == n % 256
U16(n) == n % 65536

RECURSIVE BitAnd(_, _)
BitAnd(a, b) ==
    IF a = 0 \/ b = 0 THEN 0
    ELSE ((a % 2) * (b % 2)) + 2 * BitAnd(a \div 2, b \div 2)

RECURSIVE BitOr(_, _)
BitOr(a, b) ==
    IF a = 0 THEN b
    ELSE IF b = 0 THEN a
    ELSE (IF (a % 2) + (b % 2) > 0 THEN 1 ELSE 0) + 2 * BitOr(a \div 2, b \div 2)

\* ^ computed as |
BitXor_as_or(a, b) == BitOr(a, b)

RECURSIVE BitXor(_, _)
BitXor(a, b) ==
    IF a = 0 THEN b
    ELSE IF b = 0 THEN a
    ELSE (((a % 2) + (b % 2)) % 2) + 2 * BitXor(a \div 2, b \div 2)

Pow2(n) == CASE n = 0 -> 1 [] n = 1 -> 2 [] n = 2 -> 4 [] n = 3 -> 8
             [] n = 4 -> 16 [] n = 5 -> 32 [] n = 6 -> 64 [] n = 7 -> 128
             [] n = 8 -> 256 [] n = 16 -> 65536

\* bit_vec::BitVec::from_bytes(&[b]): index 0 is the MOST significant bit.
BitVec_from_bytes(b) == [i \in 0..7 |-> ((b \div Pow2(7 - i)) % 2) = 1]

\* BitVec::to_bytes()[0]
BitVec_to_byte(bv) ==
    (IF bv[0] THEN 128 ELSE 0) + (IF bv[1] THEN 64 ELSE 0) +
    (IF bv[2] THEN 32 ELSE 0) + (IF bv[3] THEN 16 ELSE 0) +
    (IF bv[4] THEN 8 ELSE 0) + (IF bv[5] THEN 4 ELSE 0) +
    (IF bv[6] THEN 2 ELSE 0) + (IF bv[7] THEN 1 ELSE 0)

\* BitVec::set(i, v)
BitVec_set(bv, i, v) == [bv EXCEPT ![i] = v]

\* `v as i8`, `v as i16`: reinterpretation of the bit pattern as a signed value
AsI8(b)   == IF b >= 128 THEN b - 256 ELSE b
AsI16(w)  == IF w >= 32768 THEN w - 65536 ELSE w
\* `v as u16` of a signed value
AsU16(n)  == (n + 65536) % 65536

----------------------------------------------------------------------------
(* GBMem: 64KB of bytes, all zero after construction.  The map is kept as  *)
(* the function of its non-zero bytes; every other address reads 0.        *)

MemGet(map, pos) == IF pos \in DOMAIN map THEN map[pos] ELSE 0

MemPut(map, pos, byte) ==
    LET keep == IF byte = 0 THEN DOMAIN map \ {pos} ELSE DOMAIN map \cup {pos}
    IN  [a \in keep |-> IF a = pos THEN byte ELSE map[a]]

\* GBMem::new()
MemNew == [a \in {} |-> 0]

----------------------------------------------------------------------------
(* GBRegisterSet: a map from names to Raw(u16) or Pointer{origin, position} *)

Raw(d)        == [kind |-> "Raw", data |-> d, origin |-> <<>>, position |-> 0]
Pointer(o, p) == [kind |-> "Pointer", data |-> 0, origin |-> o, position |-> p]

\* GBRegisterSet::new(set): each name is Raw(0); its last character points at
\* position 0 (right half), its first at position 1 (left half).
RegisterSetNew(set) ==
    LET names == set \cup {<<n[2]>> : n \in set} \cup {<<n[1]>> : n \in set}
    IN  [k \in names |->
            IF k \in set THEN Raw(0)
            ELSE LET o == CHOOSE n \in set : k = <<n[2]>> \/ k = <<n[1]>>
                 IN  IF k = <<o[2]>> THEN Pointer(o, 0) ELSE Pointer(o, 1)]

RECURSIVE get16(_, _)
get16(registers, reg) ==
    IF reg \in DOMAIN registers
    THEN IF registers[reg].kind = "Pointer"
         THEN get16(registers, registers[reg].origin)
                 \div Pow2(8 * registers[reg].position)
         ELSE registers[reg].data
    ELSE 0      \* "Register not found": prints and returns 0

get8(registers, reg) == U8(get16(registers, reg))

\* The search loop of put8/put16: the Raw entry a name resolves to, and the
\* position of the last Pointer followed.  A name that is not in the map makes
\* the loop print and spin forever (RegResolves is FALSE).
RECURSIVE RegResolves(_, _)
RegResolves(registers, reg) ==
    /\ reg \in DOMAIN registers
    /\ \/ registers[reg].kind = "Raw"
       \/ RegResolves(registers, registers[reg].origin)

RECURSIVE RegTarget(_, _, _)
RegTarget(registers, reg, pos) ==
    IF registers[reg].kind = "Pointer"
    THEN RegTarget(registers, registers[reg].origin, registers[reg].position)
    ELSE [name |-> reg, targetPos |-> pos]

\* put8 that replaces the whole slot by the shifted data
put8_whole_slot(registers, reg, data) ==
    LET t == RegTarget(registers, reg, 0)
    IN  [registers EXCEPT ![t.name] = Raw(U16(data * Pow2(8 * t.targetPos)))]

put8(registers, reg, data) ==
    LET t            == RegTarget(registers, reg, 0)
        target_mask  == 65280 \div Pow2(8 * t.targetPos)
        data_shifted == U16(data * Pow2(8 * t.targetPos))
        reg_data     == registers[t.name].data
    IN  [registers EXCEPT ![t.name] =
            Raw(BitOr(BitAnd(reg_data, target_mask), data_shifted))]

\* put16 that writes through the 8-bit path
put16_as_put8(registers, reg, data) == put8(registers, reg, data)

put16(registers, reg, data) ==
    LET t == RegTarget(registers, reg, 0)
    IN  [registers EXCEPT ![t.name] = Raw(data)]

----------------------------------------------------------------------------
(* The dispatch tables of exec_next_op / exec_next_op_cb and the cycle map *)

\* exec_next_op: entry byte+1 is the handler and its operand strings
BaseTable == <<
    [op |-> "nop", args |-> <<>>],  \* 0x00
    [op |-> "ld", args |-> <<<<"B", "C">>, <<"d", "1", "6">>>>],  \* 0x01
    [op |-> "ld", args |-> <<<<"(", "B", "C", ")">>, <<"A">>>>],  \* 0x02
    [op |-> "inc", args |-> <<<<"B", "C">>>>],  \* 0x03
    [op |-> "inc", args |-> <<<<"B">>>>],  \* 0x04
    [op |-> "dec", args |-> <<<<"B">>>>],  \* 0x05
    [op |-> "ld", args |-> <<<<"B">>, <<"d", "8">>>>],  \* 0x06
    [op |-> "rlca", args |-> <<>>],  \* 0x07
    [op |-> "ld", args |-> <<<<"(", "a", "1", "6", ")">>, <<"S", "P">>>>],  \* 0x08
    [op |-> "add", args |-> <<<<"H", "L">>, <<"B", "C">>>>],  \* 0x09
    [op |-> "ld", args |-> <<<<"A">>, <<"(", "B", "C", ")">>>>],  \* 0x0a
    [op |-> "dec", args |-> <<<<"B", "C">>>>],  \* 0x0b
    [op |-> "inc", args |-> <<<<"C">>>>],  \* 0x0c
    [op |-> "dec", args |-> <<<<"C">>>>],  \* 0x0d
    [op |-> "ld", args |-> <<<<"C">>, <<"d", "8">>>>],  \* 0x0e
    [op |-> "rrca", args |-> <<>>],  \* 0x0f
    [op |-> "stop", args |-> <<<<"0">>>>],  \* 0x10
    [op |-> "ld", args |-> <<<<"D", "E">>, <<"d", "1", "6">>>>],  \* 0x11
    [op |-> "ld", args |-> <<<<"(", "D", "E", ")">>, <<"A">>>>],  \* 0x12
    [op |-> "inc", args |-> <<<<"D", "E">>>>],  \* 0x13
    [op |-> "inc", args |-> <<<<"D">>>>],  \* 0x14
    [op |-> "dec", args |-> <<<<"D">>>>],  \* 0x15
    [op |-> "ld", args |-> <<<<"D">>, <<"d", "8">>>>],  \* 0x16
    [op |-> "rla", args |-> <<>>],  \* 0x17
    [op |-> "jr", args |-> <<<<"r", "8">>>>],  \* 0x18
    [op |-> "add", args |-> <<<<"H", "L">>, <<"D", "E">>>>],  \* 0x19
    [op |-> "ld", args |-> <<<<"A">>, <<"(", "D", "E", ")">>>>],  \* 0x1a
    [op |-> "dec", args |-> <<<<"D", "E">>>>],  \* 0x1b
    [op |-> "inc", args |-> <<<<"E">>>>],  \* 0x1c
    [op |-> "dec", args |-> <<<<"E">>>>],  \* 0x1d
    [op |-> "ld", args |-> <<<<"E">>, <<"d", "8">>>>],  \* 0x1e
    [op |-> "rra", args |-> <<>>],  \* 0x1f
    [op |-> "jr", args |-> <<<<"N", "Z">>, <<"r", "8">>>>],  \* 0x20
    [op |-> "ld", args |-> <<<<"H", "L">>, <<"d", "1", "6">>>>],  \* 0x21
    [op |-> "ld", args |-> <<<<"(", "H", "L", "+", ")">>, <<"A">>>>],  \* 0x22
    [op |-> "inc", args |-> <<<<"H", "L">>>>],  \* 0x23
    [op |-> "inc", args |-> <<<<"H">>>>],  \* 0x24
    [op |-> "dec", args |-> <<<<"H">>>>],  \* 0x25
    [op |-> "ld", args |-> <<<<"H">>, <<"d", "8">>>>],  \* 0x26
    [op |-> "daa", args |-> <<>>],  \* 0x27
    [op |-> "jr", args |-> <<<<"Z">>, <<"r", "8">>>>],  \* 0x28
    [op |-> "add", args |-> <<<<"H", "L">>, <<"H", "L">>>>],  \* 0x29
    [op |-> "ld", args |-> <<<<"A">>, <<"(", "H", "L", "+", ")">>>>],  \* 0x2a
    [op |-> "dec", args |-> <<<<"H", "L">>>>],  \* 0x2b
    [op |-> "inc", args |-> <<<<"L">>>>],  \* 0x2c
    [op |-> "dec", args |-> <<<<"L">>>>],  \* 0x2d
    [op |-> "ld", args |-> <<<<"L">>, <<"d", "8">>>>],  \* 0x2e
    [op |-> "cpl", args |-> <<>>],  \* 0x2f
    [op |-> "jr", args |-> <<<<"N", "C">>, <<"r", "8">>>>],  \* 0x30
    [op |-> "ld", args |-> <<<<"S", "P">>, <<"d", "1", "6">>>>],  \* 0x31
    [op |-> "ld", args |-> <<<<"(", "H", "L", "-", ")">>, <<"A">>>>],  \* 0x32
    [op |-> "inc", args |-> <<<<"S", "P">>>>],  \* 0x33
    [op |-> "inc", args |-> <<<<"(", "H", "L", ")">>>>],  \* 0x34
    [op |-> "dec", args |-> <<<<"(", "H", "L", ")">>>>],  \* 0x35
    [op |-> "ld", args |-> <<<<"(", "H", "L", ")">>, <<"d", "8">>>>],  \* 0x36
    [op |-> "scf", args |-> <<>>],  \* 0x37
    [op |-> "jr", args |-> <<<<"C">>, <<"r", "8">>>>],  \* 0x38
    [op |-> "add", args |-> <<<<"H", "L">>, <<"S", "P">>>>],  \* 0x39
    [op |-> "ld", args |-> <<<<"A">>, <<"(", "H", "L", "-", ")">>>>],  \* 0x3a
    [op |-> "dec", args |-> <<<<"S", "P">>>>],  \* 0x3b
    [op |-> "inc", args |-> <<<<"A">>>>],  \* 0x3c
    [op |-> "dec", args |-> <<<<"A">>>>],  \* 0x3d
    [op |-> "ld", args |-> <<<<"A">>, <<"d", "8">>>>],  \* 0x3e
    [op |-> "ccf", args |-> <<>>],  \* 0x3f
    [op |-> "ld", args |-> <<<<"B">>, <<"B">>>>],  \* 0x40
    [op |-> "ld", args |-> <<<<"B">>, <<"C">>>>],  \* 0x41
    [op |-> "ld", args |-> <<<<"B">>, <<"D">>>>],  \* 0x42
    [op |-> "ld", args |-> <<<<"B">>, <<"E">>>>],  \* 0x43
    [op |-> "ld", args |-> <<<<"B">>, <<"H">>>>],  \* 0x44
    [op |-> "ld", args |-> <<<<"B">>, <<"L">>>>],  \* 0x45
    [op |-> "ld", args |-> <<<<"B">>, <<"(", "H", "L", ")">>>>],  \* 0x46
    [op |-> "ld", args |-> <<<<"B">>, <<"A">>>>],  \* 0x47
    [op |-> "ld", args |-> <<<<"C">>, <<"B">>>>],  \* 0x48
    [op |-> "ld", args |-> <<<<"C">>, <<"C">>>>],  \* 0x49
    [op |-> "ld", args |-> <<<<"C">>, <<"D">>>>],  \* 0x4a
    [op |-> "ld", args |-> <<<<"C">>, <<"E">>>>],  \* 0x4b
    [op |-> "ld", args |-> <<<<"C">>, <<"H">>>>],  \* 0x4c
    [op |-> "ld", args |-> <<<<"C">>, <<"L">>>>],  \* 0x4d
    [op |-> "ld", args |-> <<<<"C">>, <<"(", "H", "L", ")">>>>],  \* 0x4e
    [op |-> "ld", args |-> <<<<"C">>, <<"A">>>>],  \* 0x4f
    [op |-> "ld", args |-> <<<<"D">>, <<"B">>>>],  \* 0x50
    [op |-> "ld", args |-> <<<<"D">>, <<"C">>>>],  \* 0x51
    [op |-> "ld", args |-> <<<<"D">>, <<"D">>>>],  \* 0x52
    [op |-> "ld", args |-> <<<<"D">>, <<"E">>>>],  \* 0x53
    [op |-> "ld", args |-> <<<<"D">>, <<"H">>>>],  \* 0x54
    [op |-> "ld", args |-> <<<<"D">>, <<"L">>>>],  \* 0x55
    [op |-> "ld", args |-> <<<<"D">>, <<"(", "H", "L", ")">>>>],  \* 0x56
    [op |-> "ld", args |-> <<<<"D">>, <<"A">>>>],  \* 0x57
    [op |-> "ld", args |-> <<<<"E">>, <<"B">>>>],  \* 0x58
    [op |-> "ld", args |-> <<<<"E">>, <<"C">>>>],  \* 0x59
    [op |-> "ld", args |-> <<<<"E">>, <<"D">>>>],  \* 0x5a
    [op |-> "ld", args |-> <<<<"E">>, <<"E">>>>],  \* 0x5b
    [op |-> "ld", args |-> <<<<"E">>, <<"H">>>>],  \* 0x5c
    [op |-> "ld", args |-> <<<<"E">>, <<"L">>>>],  \* 0x5d
    [op |-> "ld", args |-> <<<<"E">>, <<"(", "H", "L", ")">>>>],  \* 0x5e
    [op |-> "ld", args |-> <<<<"E">>, <<"A">>>>],  \* 0x5f
    [op |-> "ld", args |-> <<<<"H">>, <<"B">>>>],  \* 0x60
    [op |-> "ld", args |-> <<<<"H">>, <<"C">>>>],  \* 0x61
    [op |-> "ld", args |-> <<<<"H">>, <<"D">>>>],  \* 0x62
    [op |-> "ld", args |-> <<<<"H">>, <<"E">>>>],  \* 0x63
    [op |-> "ld", args |-> <<<<"H">>, <<"H">>>>],  \* 0x64
    [op |-> "ld", args |-> <<<<"H">>, <<"L">>>>],  \* 0x65
    [op |-> "ld", args |-> <<<<"H">>, <<"(", "H", "L", ")">>>>],  \* 0x66
    [op |-> "ld", args |-> <<<<"H">>, <<"A">>>>],  \* 0x67
    [op |-> "ld", args |-> <<<<"L">>, <<"B">>>>],  \* 0x68
    [op |-> "ld", args |-> <<<<"L">>, <<"C">>>>],  \* 0x69
    [op |-> "ld", args |-> <<<<"L">>, <<"D">>>>],  \* 0x6a
    [op |-> "ld", args |-> <<<<"L">>, <<"E">>>>],  \* 0x6b
    [op |-> "ld", args |-> <<<<"L">>, <<"H">>>>],  \* 0x6c
    [op |-> "ld", args |-> <<<<"L">>, <<"L">>>>],  \* 0x6d
    [op |-> "ld", args |-> <<<<"L">>, <<"(", "H", "L", ")">>>>],  \* 0x6e
    [op |-> "ld", args |-> <<<<"L">>, <<"A">>>>],  \* 0x6f
    [op |-> "ld", args |-> <<<<"(", "H", "L", ")">>, <<"B">>>>],  \* 0x70
    [op |-> "ld", args |-> <<<<"(", "H", "L", ")">>, <<"C">>>>],  \* 0x71
    [op |-> "ld", args |-> <<<<"(", "H", "L", ")">>, <<"D">>>>],  \* 0x72
    [op |-> "ld", args |-> <<<<"(", "H", "L", ")">>, <<"E">>>>],  \* 0x73
    [op |-> "ld", args |-> <<<<"(", "H", "L", ")">>, <<"H">>>>],  \* 0x74
    [op |-> "ld", args |-> <<<<"(", "H", "L", ")">>, <<"L">>>>],  \* 0x75
    [op |-> "halt", args |-> <<>>],  \* 0x76
    [op |-> "ld", args |-> <<<<"(", "H", "L", ")">>, <<"A">>>>],  \* 0x77
    [op |-> "ld", args |-> <<<<"A">>, <<"B">>>>],  \* 0x78
    [op |-> "ld", args |-> <<<<"A">>, <<"C">>>>],  \* 0x79
    [op |-> "ld", args |-> <<<<"A">>, <<"D">>>>],  \* 0x7a
    [op |-> "ld", args |-> <<<<"A">>, <<"E">>>>],  \* 0x7b
    [op |-> "ld", args |-> <<<<"A">>, <<"H">>>>],  \* 0x7c
    [op |-> "ld", args |-> <<<<"A">>, <<"L">>>>],  \* 0x7d
    [op |-> "ld", args |-> <<<<"A">>, <<"(", "H", "L", ")">>>>],  \* 0x7e
    [op |-> "ld", args |-> <<<<"A">>, <<"A">>>>],  \* 0x7f
    [op |-> "add", args |-> <<<<"A">>, <<"B">>>>],  \* 0x80
    [op |-> "add", args |-> <<<<"A">>, <<"C">>>>],  \* 0x81
    [op |-> "add", args |-> <<<<"A">>, <<"D">>>>],  \* 0x82
    [op |-> "add", args |-> <<<<"A">>, <<"E">>>>],  \* 0x83
    [op |-> "add", args |-> <<<<"A">>, <<"H">>>>],  \* 0x84
    [op |-> "add", args |-> <<<<"A">>, <<"L">>>>],  \* 0x85
    [op |-> "add", args |-> <<<<"A">>, <<"(", "H", "L", ")">>>>],  \* 0x86
    [op |-> "add", args |-> <<<<"A">>, <<"A">>>>],  \* 0x87
    [op |-> "adc", args |-> <<<<"A">>, <<"B">>>>],  \* 0x88
    [op |-> "adc", args |-> <<<<"A">>, <<"C">>>>],  \* 0x89
    [op |-> "adc", args |-> <<<<"A">>, <<"D">>>>],  \* 0x8a
    [op |-> "adc", args |-> <<<<"A">>, <<"E">>>>],  \* 0x8b
    [op |-> "adc", args |-> <<<<"A">>, <<"H">>>>],  \* 0x8c
    [op |-> "adc", args |-> <<<<"A">>, <<"L">>>>],  \* 0x8d
    [op |-> "adc", args |-> <<<<"A">>, <<"(", "H", "L", ")">>>>],  \* 0x8e
    [op |-> "adc", args |-> <<<<"A">>, <<"A">>>>],  \* 0x8f
    [op |-> "sub", args |-> <<<<"B">>>>],  \* 0x90
    [op |-> "sub", args |-> <<<<"C">>>>],  \* 0x91
    [op |-> "sub", args |-> <<<<"D">>>>],  \* 0x92
    [op |-> "sub", args |-> <<<<"E">>>>],  \* 0x93
    [op |-> "sub", args |-> <<<<"H">>>>],  \* 0x94
    [op |-> "sub", args |-> <<<<"L">>>>],  \* 0x95
    [op |-> "sub", args |-> <<<<"(", "H", "L", ")">>>>],  \* 0x96
    [op |-> "sub", args |-> <<<<"A">>>>],  \* 0x97
    [op |-> "sbc", args |-> <<<<"A">>, <<"B">>>>],  \* 0x98
    [op |-> "sbc", args |-> <<<<"A">>, <<"C">>>>],  \* 0x99
    [op |-> "sbc", args |-> <<<<"A">>, <<"D">>>>],  \* 0x9a
    [op |-> "sbc", args |-> <<<<"A">>, <<"E">>>>],  \* 0x9b
    [op |-> "sbc", args |-> <<<<"A">>, <<"H">>>>],  \* 0x9c
    [op |-> "sbc", args |-> <<<<"A">>, <<"L">>>>],  \* 0x9d
    [op |-> "sbc", args |-> <<<<"A">>, <<"(", "H", "L", ")">>>>],  \* 0x9e
    [op |-> "sbc", args |-> <<<<"A">>, <<"A">>>>],  \* 0x9f
    [op |-> "and", args |-> <<<<"B">>>>],  \* 0xa0
    [op |-> "and", args |-> <<<<"C">>>>],  \* 0xa1
    [op |-> "and", args |-> <<<<"D">>>>],  \* 0xa2
    [op |-> "and", args |-> <<<<"E">>>>],  \* 0xa3
    [op |-> "and", args |-> <<<<"H">>>>],  \* 0xa4
    [op |-> "and", args |-> <<<<"L">>>>],  \* 0xa5
    [op |-> "and", args |-> <<<<"(", "H", "L", ")">>>>],  \* 0xa6
    [op |-> "and", args |-> <<<<"A">>>>],  \* 0xa7
    [op |-> "xor", args |-> <<<<"B">>>>],  \* 0xa8
    [op |-> "xor", args |-> <<<<"C">>>>],  \* 0xa9
    [op |-> "xor", args |-> <<<<"D">>>>],  \* 0xaa
    [op |-> "xor", args |-> <<<<"E">>>>],  \* 0xab
    [op |-> "xor", args |-> <<<<"H">>>>],  \* 0xac
    [op |-> "xor", args |-> <<<<"L">>>>],  \* 0xad
    [op |-> "xor", args |-> <<<<"(", "H", "L", ")">>>>],  \* 0xae
    [op |-> "xor", args |-> <<<<"A">>>>],  \* 0xaf
    [op |-> "or", args |-> <<<<"B">>>>],  \* 0xb0
    [op |-> "or", args |-> <<<<"C">>>>],  \* 0xb1
    [op |-> "or", args |-> <<<<"D">>>>],  \* 0xb2
    [op |-> "or", args |-> <<<<"E">>>>],  \* 0xb3
    [op |-> "or", args |-> <<<<"H">>>>],  \* 0xb4
    [op |-> "or", args |-> <<<<"L">>>>],  \* 0xb5
    [op |-> "or", args |-> <<<<"(", "H", "L", ")">>>>],  \* 0xb6
    [op |-> "or", args |-> <<<<"A">>>>],  \* 0xb7
    [op |-> "cp", args |-> <<<<"B">>>>],  \* 0xb8
    [op |-> "cp", args |-> <<<<"C">>>>],  \* 0xb9
    [op |-> "cp", args |-> <<<<"D">>>>],  \* 0xba
    [op |-> "cp", args |-> <<<<"E">>>>],  \* 0xbb
    [op |-> "cp", args |-> <<<<"H">>>>],  \* 0xbc
    [op |-> "cp", args |-> <<<<"L">>>>],  \* 0xbd
    [op |-> "cp", args |-> <<<<"(", "H", "L", ")">>>>],  \* 0xbe
    [op |-> "cp", args |-> <<<<"A">>>>],  \* 0xbf
    [op |-> "ret", args |-> <<<<"N", "Z">>>>],  \* 0xc0
    [op |-> "pop", args |-> <<<<"B", "C">>>>],  \* 0xc1
    [op |-> "jp", args |-> <<<<"N", "Z">>, <<"a", "1", "6">>>>],  \* 0xc2
    [op |-> "jp", args |-> <<<<"a", "1", "6">>>>],  \* 0xc3
    [op |-> "call", args |-> <<<<"N", "Z">>, <<"a", "1", "6">>>>],  \* 0xc4
    [op |-> "push", args |-> <<<<"B", "C">>>>],  \* 0xc5
    [op |-> "add", args |-> <<<<"A">>, <<"d", "8">>>>],  \* 0xc6
    [op |-> "rst", args |-> <<<<"0", "0", "H">>>>],  \* 0xc7
    [op |-> "ret", args |-> <<<<"Z">>>>],  \* 0xc8
    [op |-> "ret", args |-> <<>>],  \* 0xc9
    [op |-> "jp", args |-> <<<<"Z">>, <<"a", "1", "6">>>>],  \* 0xca
    [op |-> "prefix", args |-> <<<<"C", "B">>>>],  \* 0xcb
    [op |-> "call", args |-> <<<<"Z">>, <<"a", "1", "6">>>>],  \* 0xcc
    [op |-> "call", args |-> <<<<"a", "1", "6">>>>],  \* 0xcd
    [op |-> "adc", args |-> <<<<"A">>, <<"d", "8">>>>],  \* 0xce
    [op |-> "rst", args |-> <<<<"0", "8", "H">>>>],  \* 0xcf
    [op |-> "ret", args |-> <<<<"N", "C">>>>],  \* 0xd0
    [op |-> "pop", args |-> <<<<"D", "E">>>>],  \* 0xd1
    [op |-> "jp", args |-> <<<<"N", "C">>, <<"a", "1", "6">>>>],  \* 0xd2
    [op |-> "none", args |-> <<>>],  \* 0xd3
    [op |-> "call", args |-> <<<<"N", "C">>, <<"a", "1", "6">>>>],  \* 0xd4
    [op |-> "push", args |-> <<<<"D", "E">>>>],  \* 0xd5
    [op |-> "sub", args |-> <<<<"d", "8">>>>],  \* 0xd6
    [op |-> "rst", args |-> <<<<"1", "0", "H">>>>],  \* 0xd7
    [op |-> "ret", args |-> <<<<"C">>>>],  \* 0xd8
    [op |-> "reti", args |-> <<>>],  \* 0xd9
    [op |-> "jp", args |-> <<<<"C">>, <<"a", "1", "6">>>>],  \* 0xda
    [op |-> "none", args |-> <<>>],  \* 0xdb
    [op |-> "call", args |-> <<<<"C">>, <<"a", "1", "6">>>>],  \* 0xdc
    [op |-> "none", args |-> <<>>],  \* 0xdd
    [op |-> "sbc", args |-> <<<<"A">>, <<"d", "8">>>>],  \* 0xde
    [op |-> "rst", args |-> <<<<"1", "8", "H">>>>],  \* 0xdf
    [op |-> "ldh", args |-> <<<<"(", "a", "8", ")">>, <<"A">>>>],  \* 0xe0
    [op |-> "pop", args |-> <<<<"H", "L">>>>],  \* 0xe1
    [op |-> "ld", args |-> <<<<"(", "C", ")">>, <<"A">>>>],  \* 0xe2
    [op |-> "none", args |-> <<>>],  \* 0xe3
    [op |-> "none", args |-> <<>>],  \* 0xe4
    [op |-> "push", args |-> <<<<"H", "L">>>>],  \* 0xe5
    [op |-> "and", args |-> <<<<"d", "8">>>>],  \* 0xe6
    [op |-> "rst", args |-> <<<<"2", "0", "H">>>>],  \* 0xe7
    [op |-> "add", args |-> <<<<"S", "P">>, <<"r", "8">>>>],  \* 0xe8
    [op |-> "jp", args |-> <<<<"(", "H", "L", ")">>>>],  \* 0xe9
    [op |-> "ld", args |-> <<<<"(", "a", "1", "6", ")">>, <<"A">>>>],  \* 0xea
    [op |-> "none", args |-> <<>>],  \* 0xeb
    [op |-> "none", args |-> <<>>],  \* 0xec
    [op |-> "none", args |-> <<>>],  \* 0xed
    [op |-> "xor", args |-> <<<<"d", "8">>>>],  \* 0xee
    [op |-> "rst", args |-> <<<<"2", "8", "H">>>>],  \* 0xef
    [op |-> "ldh", args |-> <<<<"A">>, <<"(", "a", "8", ")">>>>],  \* 0xf0
    [op |-> "pop", args |-> <<<<"A", "F">>>>],  \* 0xf1
    [op |-> "ld", args |-> <<<<"A">>, <<"(", "C", ")">>>>],  \* 0xf2
    [op |-> "di", args |-> <<>>],  \* 0xf3
    [op |-> "none", args |-> <<>>],  \* 0xf4
    [op |-> "push", args |-> <<<<"A", "F">>>>],  \* 0xf5
    [op |-> "or", args |-> <<<<"d", "8">>>>],  \* 0xf6
    [op |-> "rst", args |-> <<<<"3", "0", "H">>>>],  \* 0xf7
    [op |-> "ld", args |-> <<<<"H", "L">>, <<"S", "P", "+", "r", "8">>>>],  \* 0xf8
    [op |-> "ld", args |-> <<<<"S", "P">>, <<"H", "L">>>>],  \* 0xf9
    [op |-> "ld", args |-> <<<<"A">>, <<"(", "a", "1", "6", ")">>>>],  \* 0xfa
    [op |-> "ei", args |-> <<>>],  \* 0xfb
    [op |-> "none", args |-> <<>>],  \* 0xfc
    [op |-> "none", args |-> <<>>],  \* 0xfd
    [op |-> "cp", args |-> <<<<"d", "8">>>>],  \* 0xfe
    [op |-> "rst", args |-> <<<<"3", "8", "H">>>>]   \* 0xff
>>

\* exec_next_op_cb: entry byte+1 is the handler and its operand strings
CbTable == <<
    [op |-> "rlc", args |-> <<<<"B">>>>],  \* 0x00
    [op |-> "rlc", args |-> <<<<"C">>>>],  \* 0x01
    [op |-> "rlc", args |-> <<<<"D">>>>],  \* 0x02
    [op |-> "rlc", args |-> <<<<"E">>>>],  \* 0x03
    [op |-> "rlc", args |-> <<<<"H">>>>],  \* 0x04
    [op |-> "rlc", args |-> <<<<"L">>>>],  \* 0x05
    [op |-> "rlc", args |-> <<<<"(", "H", "L", ")">>>>],  \* 0x06
    [op |-> "rlc", args |-> <<<<"A">>>>],  \* 0x07
    [op |-> "rrc", args |-> <<<<"B">>>>],  \* 0x08
    [op |-> "rrc", args |-> <<<<"C">>>>],  \* 0x09
    [op |-> "rrc", args |-> <<<<"D">>>>],  \* 0x0a
    [op |-> "rrc", args |-> <<<<"E">>>>],  \* 0x0b
    [op |-> "rrc", args |-> <<<<"H">>>>],  \* 0x0c
    [op |-> "rrc", args |-> <<<<"L">>>>],  \* 0x0d
    [op |-> "rrc", args |-> <<<<"(", "H", "L", ")">>>>],  \* 0x0e
    [op |-> "rrc", args |-> <<<<"A">>>>],  \* 0x0f
    [op |-> "rl", args |-> <<<<"B">>>>],  \* 0x10
    [op |-> "rl", args |-> <<<<"C">>>>],  \* 0x11
    [op |-> "rl", args |-> <<<<"D">>>>],  \* 0x12
    [op |-> "rl", args |-> <<<<"E">>>>],  \* 0x13
    [op |-> "rl", args |-> <<<<"H">>>>],  \* 0x14
    [op |-> "rl", args |-> <<<<"L">>>>],  \* 0x15
    [op |-> "rl", args |-> <<<<"(", "H", "L", ")">>>>],  \* 0x16
    [op |-> "rl", args |-> <<<<"A">>>>],  \* 0x17
    [op |-> "rr", args |-> <<<<"B">>>>],  \* 0x18
    [op |-> "rr", args |-> <<<<"C">>>>],  \* 0x19
    [op |-> "rr", args |-> <<<<"D">>>>],  \* 0x1a
    [op |-> "rr", args |-> <<<<"E">>>>],  \* 0x1b
    [op |-> "rr", args |-> <<<<"H">>>>],  \* 0x1c
    [op |-> "rr", args |-> <<<<"L">>>>],  \* 0x1d
    [op |-> "rr", args |-> <<<<"(", "H", "L", ")">>>>],  \* 0x1e
    [op |-> "rr", args |-> <<<<"A">>>>],  \* 0x1f
    [op |-> "sla", args |-> <<<<"B">>>>],  \* 0x20
    [op |-> "sla", args |-> <<<<"C">>>>],  \* 0x21
    [op |-> "sla", args |-> <<<<"D">>>>],  \* 0x22
    [op |-> "sla", args |-> <<<<"E">>>>],  \* 0x23
    [op |-> "sla", args |-> <<<<"H">>>>],  \* 0x24
    [op |-> "sla", args |-> <<<<"L">>>>],  \* 0x25
    [op |-> "sla", args |-> <<<<"(", "H", "L", ")">>>>],  \* 0x26
    [op |-> "sla", args |-> <<<<"A">>>>],  \* 0x27
    [op |-> "sra", args |-> <<<<"B">>>>],  \* 0x28
    [op |-> "sra", args |-> <<<<"C">>>>],  \* 0x29
    [op |-> "sra", args |-> <<<<"D">>>>],  \* 0x2a
    [op |-> "sra", args |-> <<<<"E">>>>],  \* 0x2b
    [op |-> "sra", args |-> <<<<"H">>>>],  \* 0x2c
    [op |-> "sra", args |-> <<<<"L">>>>],  \* 0x2d
    [op |-> "sra", args |-> <<<<"(", "H", "L", ")">>>>],  \* 0x2e
    [op |-> "sra", args |-> <<<<"A">>>>],  \* 0x2f
    [op |-> "swap", args |-> <<<<"B">>>>],  \* 0x30
    [op |-> "swap", args |-> <<<<"C">>>>],  \* 0x31
    [op |-> "swap", args |-> <<<<"D">>>>],  \* 0x32
    [op |-> "swap", args |-> <<<<"E">>>>],  \* 0x33
    [op |-> "swap", args |-> <<<<"H">>>>],  \* 0x34
    [op |-> "swap", args |-> <<<<"L">>>>],  \* 0x35
    [op |-> "swap", args |-> <<<<"(", "H", "L", ")">>>>],  \* 0x36
    [op |-> "swap", args |-> <<<<"A">>>>],  \* 0x37
    [op |-> "srl", args |-> <<<<"B">>>>],  \* 0x38
    [op |-> "srl", args |-> <<<<"C">>>>],  \* 0x39
    [op |-> "srl", args |-> <<<<"D">>>>],  \* 0x3a
    [op |-> "srl", args |-> <<<<"E">>>>],  \* 0x3b
    [op |-> "srl", args |-> <<<<"H">>>>],  \* 0x3c
    [op |-> "srl", args |-> <<<<"L">>>>],  \* 0x3d
    [op |-> "srl", args |-> <<<<"(", "H", "L", ")">>>>],  \* 0x3e
    [op |-> "srl", args |-> <<<<"A">>>>],  \* 0x3f
    [op |-> "bit", args |-> <<<<"0">>, <<"B">>>>],  \* 0x40
    [op |-> "bit", args |-> <<<<"0">>, <<"C">>>>],  \* 0x41
    [op |-> "bit", args |-> <<<<"0">>, <<"D">>>>],  \* 0x42
    [op |-> "bit", args |-> <<<<"0">>, <<"E">>>>],  \* 0x43
    [op |-> "bit", args |-> <<<<"0">>, <<"H">>>>],  \* 0x44
    [op |-> "bit", args |-> <<<<"0">>, <<"L">>>>],  \* 0x45
    [op |-> "bit", args |-> <<<<"0">>, <<"(", "H", "L", ")">>>>],  \* 0x46
    [op |-> "bit", args |-> <<<<"0">>, <<"A">>>>],  \* 0x47
    [op |-> "bit", args |-> <<<<"1">>, <<"B">>>>],  \* 0x48
    [op |-> "bit", args |-> <<<<"1">>, <<"C">>>>],  \* 0x49
    [op |-> "bit", args |-> <<<<"1">>, <<"D">>>>],  \* 0x4a
    [op |-> "bit", args |-> <<<<"1">>, <<"E">>>>],  \* 0x4b
    [op |-> "bit", args |-> <<<<"1">>, <<"H">>>>],  \* 0x4c
    [op |-> "bit", args |-> <<<<"1">>, <<"L">>>>],  \* 0x4d
    [op |-> "bit", args |-> <<<<"1">>, <<"(", "H", "L", ")">>>>],  \* 0x4e
    [op |-> "bit", args |-> <<<<"1">>, <<"A">>>>],  \* 0x4f
    [op |-> "bit", args |-> <<<<"2">>, <<"B">>>>],  \* 0x50
    [op |-> "bit", args |-> <<<<"2">>, <<"C">>>>],  \* 0x51
    [op |-> "bit", args |-> <<<<"2">>, <<"D">>>>],  \* 0x52
    [op |-> "bit", args |-> <<<<"2">>, <<"E">>>>],  \* 0x53
    [op |-> "bit", args |-> <<<<"2">>, <<"H">>>>],  \* 0x54
    [op |-> "bit", args |-> <<<<"2">>, <<"L">>>>],  \* 0x55
    [op |-> "bit", args |-> <<<<"2">>, <<"(", "H", "L", ")">>>>],  \* 0x56
    [op |-> "bit", args |-> <<<<"2">>, <<"A">>>>],  \* 0x57
    [op |-> "bit", args |-> <<<<"3">>, <<"B">>>>],  \* 0x58
    [op |-> "bit", args |-> <<<<"3">>, <<"C">>>>],  \* 0x59
    [op |-> "bit", args |-> <<<<"3">>, <<"D">>>>],  \* 0x5a
    [op |-> "bit", args |-> <<<<"3">>, <<"E">>>>],  \* 0x5b
    [op |-> "bit", args |-> <<<<"3">>, <<"H">>>>],  \* 0x5c
    [op |-> "bit", args |-> <<<<"3">>, <<"L">>>>],  \* 0x5d
    [op |-> "bit", args |-> <<<<"3">>, <<"(", "H", "L", ")">>>>],  \* 0x5e
    [op |-> "bit", args |-> <<<<"3">>, <<"A">>>>],  \* 0x5f
    [op |-> "bit", args |-> <<<<"4">>, <<"B">>>>],  \* 0x60
    [op |-> "bit", args |-> <<<<"4">>, <<"C">>>>],  \* 0x61
    [op |-> "bit", args |-> <<<<"4">>, <<"D">>>>],  \* 0x62
    [op |-> "bit", args |-> <<<<"4">>, <<"E">>>>],  \* 0x63
    [op |-> "bit", args |-> <<<<"4">>, <<"H">>>>],  \* 0x64
    [op |-> "bit", args |-> <<<<"4">>, <<"L">>>>],  \* 0x65
    [op |-> "bit", args |-> <<<<"4">>, <<"(", "H", "L", ")">>>>],  \* 0x66
    [op |-> "bit", args |-> <<<<"4">>, <<"A">>>>],  \* 0x67
    [op |-> "bit", args |-> <<<<"5">>, <<"B">>>>],  \* 0x68
    [op |-> "bit", args |-> <<<<"5">>, <<"C">>>>],  \* 0x69
    [op |-> "bit", args |-> <<<<"5">>, <<"D">>>>],  \* 0x6a
    [op |-> "bit", args |-> <<<<"5">>, <<"E">>>>],  \* 0x6b
    [op |-> "bit", args |-> <<<<"5">>, <<"H">>>>],  \* 0x6c
    [op |-> "bit", args |-> <<<<"5">>, <<"L">>>>],  \* 0x6d
    [op |-> "bit", args |-> <<<<"5">>, <<"(", "H", "L", ")">>>>],  \* 0x6e
    [op |-> "bit", args |-> <<<<"5">>, <<"A">>>>],  \* 0x6f
    [op |-> "bit", args |-> <<<<"6">>, <<"B">>>>],  \* 0x70
    [op |-> "bit", args |-> <<<<"6">>, <<"C">>>>],  \* 0x71
    [op |-> "bit", args |-> <<<<"6">>, <<"D">>>>],  \* 0x72
    [op |-> "bit", args |-> <<<<"6">>, <<"E">>>>],  \* 0x73
    [op |-> "bit", args |-> <<<<"6">>, <<"H">>>>],  \* 0x74
    [op |-> "bit", args |-> <<<<"6">>, <<"L">>>>],  \* 0x75
    [op |-> "bit", args |-> <<<<"6">>, <<"(", "H", "L", ")">>>>],  \* 0x76
    [op |-> "bit", args |-> <<<<"6">>, <<"A">>>>],  \* 0x77
    [op |-> "bit", args |-> <<<<"7">>, <<"B">>>>],  \* 0x78
    [op |-> "bit", args |-> <<<<"7">>, <<"C">>>>],  \* 0x79
    [op |-> "bit", args |-> <<<<"7">>, <<"D">>>>],  \* 0x7a
    [op |-> "bit", args |-> <<<<"7">>, <<"E">>>>],  \* 0x7b
    [op |-> "bit", args |-> <<<<"7">>, <<"H">>>>],  \* 0x7c
    [op |-> "bit", args |-> <<<<"7">>, <<"L">>>>],  \* 0x7d
    [op |-> "bit", args |-> <<<<"7">>, <<"(", "H", "L", ")">>>>],  \* 0x7e
    [op |-> "bit", args |-> <<<<"7">>, <<"A">>>>],  \* 0x7f
    [op |-> "res", args |-> <<<<"0">>, <<"B">>>>],  \* 0x80
    [op |-> "res", args |-> <<<<"0">>, <<"C">>>>],  \* 0x81
    [op |-> "res", args |-> <<<<"0">>, <<"D">>>>],  \* 0x82
    [op |-> "res", args |-> <<<<"0">>, <<"E">>>>],  \* 0x83
    [op |-> "res", args |-> <<<<"0">>, <<"H">>>>],  \* 0x84
    [op |-> "res", args |-> <<<<"0">>, <<"L">>>>],  \* 0x85
    [op |-> "res", args |-> <<<<"0">>, <<"(", "H", "L", ")">>>>],  \* 0x86
    [op |-> "res", args |-> <<<<"0">>, <<"A">>>>],  \* 0x87
    [op |-> "res", args |-> <<<<"1">>, <<"B">>>>],  \* 0x88
    [op |-> "res", args |-> <<<<"1">>, <<"C">>>>],  \* 0x89
    [op |-> "res", args |-> <<<<"1">>, <<"D">>>>],  \* 0x8a
    [op |-> "res", args |-> <<<<"1">>, <<"E">>>>],  \* 0x8b
    [op |-> "res", args |-> <<<<"1">>, <<"H">>>>],  \* 0x8c
    [op |-> "res", args |-> <<<<"1">>, <<"L">>>>],  \* 0x8d
    [op |-> "res", args |-> <<<<"1">>, <<"(", "H", "L", ")">>>>],  \* 0x8e
    [op |-> "res", args |-> <<<<"1">>, <<"A">>>>],  \* 0x8f
    [op |-> "res", args |-> <<<<"2">>, <<"B">>>>],  \* 0x90
    [op |-> "res", args |-> <<<<"2">>, <<"C">>>>],  \* 0x91
    [op |-> "res", args |-> <<<<"2">>, <<"D">>>>],  \* 0x92
    [op |-> "res", args |-> <<<<"2">>, <<"E">>>>],  \* 0x93
    [op |-> "res", args |-> <<<<"2">>, <<"H">>>>],  \* 0x94
    [op |-> "res", args |-> <<<<"2">>, <<"L">>>>],  \* 0x95
    [op |-> "res", args |-> <<<<"2">>, <<"(", "H", "L", ")">>>>],  \* 0x96
    [op |-> "res", args |-> <<<<"2">>, <<"A">>>>],  \* 0x97
    [op |-> "res", args |-> <<<<"3">>, <<"B">>>>],  \* 0x98
    [op |-> "res", args |-> <<<<"3">>, <<"C">>>>],  \* 0x99
    [op |-> "res", args |-> <<<<"3">>, <<"D">>>>],  \* 0x9a
    [op |-> "res", args |-> <<<<"3">>, <<"E">>>>],  \* 0x9b
    [op |-> "res", args |-> <<<<"3">>, <<"H">>>>],  \* 0x9c
    [op |-> "res", args |-> <<<<"3">>, <<"L">>>>],  \* 0x9d
    [op |-> "res", args |-> <<<<"3">>, <<"(", "H", "L", ")">>>>],  \* 0x9e
    [op |-> "res", args |-> <<<<"3">>, <<"A">>>>],  \* 0x9f
    [op |-> "res", args |-> <<<<"4">>, <<"B">>>>],  \* 0xa0
    [op |-> "res", args |-> <<<<"4">>, <<"C">>>>],  \* 0xa1
    [op |-> "res", args |-> <<<<"4">>, <<"D">>>>],  \* 0xa2
    [op |-> "res", args |-> <<<<"4">>, <<"E">>>>],  \* 0xa3
    [op |-> "res", args |-> <<<<"4">>, <<"H">>>>],  \* 0xa4
    [op |-> "res", args |-> <<<<"4">>, <<"L">>>>],  \* 0xa5
    [op |-> "res", args |-> <<<<"4">>, <<"(", "H", "L", ")">>>>],  \* 0xa6
    [op |-> "res", args |-> <<<<"4">>, <<"A">>>>],  \* 0xa7
    [op |-> "res", args |-> <<<<"5">>, <<"B">>>>],  \* 0xa8
    [op |-> "res", args |-> <<<<"5">>, <<"C">>>>],  \* 0xa9
    [op |-> "res", args |-> <<<<"5">>, <<"D">>>>],  \* 0xaa
    [op |-> "res", args |-> <<<<"5">>, <<"E">>>>],  \* 0xab
    [op |-> "res", args |-> <<<<"5">>, <<"H">>>>],  \* 0xac
    [op |-> "res", args |-> <<<<"5">>, <<"L">>>>],  \* 0xad
    [op |-> "res", args |-> <<<<"5">>, <<"(", "H", "L", ")">>>>],  \* 0xae
    [op |-> "res", args |-> <<<<"5">>, <<"A">>>>],  \* 0xaf
    [op |-> "res", args |-> <<<<"6">>, <<"B">>>>],  \* 0xb0
    [op |-> "res", args |-> <<<<"6">>, <<"C">>>>],  \* 0xb1
    [op |-> "res", args |-> <<<<"6">>, <<"D">>>>],  \* 0xb2
    [op |-> "res", args |-> <<<<"6">>, <<"E">>>>],  \* 0xb3
    [op |-> "res", args |-> <<<<"6">>, <<"H">>>>],  \* 0xb4
    [op |-> "res", args |-> <<<<"6">>, <<"L">>>>],  \* 0xb5
    [op |-> "res", args |-> <<<<"6">>, <<"(", "H", "L", ")">>>>],  \* 0xb6
    [op |-> "res", args |-> <<<<"6">>, <<"A">>>>],  \* 0xb7
    [op |-> "res", args |-> <<<<"7">>, <<"B">>>>],  \* 0xb8
    [op |-> "res", args |-> <<<<"7">>, <<"C">>>>],  \* 0xb9
    [op |-> "res", args |-> <<<<"7">>, <<"D">>>>],  \* 0xba
    [op |-> "res", args |-> <<<<"7">>, <<"E">>>>],  \* 0xbb
    [op |-> "res", args |-> <<<<"7">>, <<"H">>>>],  \* 0xbc
    [op |-> "res", args |-> <<<<"7">>, <<"L">>>>],  \* 0xbd
    [op |-> "res", args |-> <<<<"7">>, <<"(", "H", "L", ")">>>>],  \* 0xbe
    [op |-> "res", args |-> <<<<"7">>, <<"A">>>>],  \* 0xbf
    [op |-> "set", args |-> <<<<"0">>, <<"B">>>>],  \* 0xc0
    [op |-> "set", args |-> <<<<"0">>, <<"C">>>>],  \* 0xc1
    [op |-> "set", args |-> <<<<"0">>, <<"D">>>>],  \* 0xc2
    [op |-> "set", args |-> <<<<"0">>, <<"E">>>>],  \* 0xc3
    [op |-> "set", args |-> <<<<"0">>, <<"H">>>>],  \* 0xc4
    [op |-> "set", args |-> <<<<"0">>, <<"L">>>>],  \* 0xc5
    [op |-> "set", args |-> <<<<"0">>, <<"(", "H", "L", ")">>>>],  \* 0xc6
    [op |-> "set", args |-> <<<<"0">>, <<"A">>>>],  \* 0xc7
    [op |-> "set", args |-> <<<<"1">>, <<"B">>>>],  \* 0xc8
    [op |-> "set", args |-> <<<<"1">>, <<"C">>>>],  \* 0xc9
    [op |-> "set", args |-> <<<<"1">>, <<"D">>>>],  \* 0xca
    [op |-> "set", args |-> <<<<"1">>, <<"E">>>>],  \* 0xcb
    [op |-> "set", args |-> <<<<"1">>, <<"H">>>>],  \* 0xcc
    [op |-> "set", args |-> <<<<"1">>, <<"L">>>>],  \* 0xcd
    [op |-> "set", args |-> <<<<"1">>, <<"(", "H", "L", ")">>>>],  \* 0xce
    [op |-> "set", args |-> <<<<"1">>, <<"A">>>>],  \* 0xcf
    [op |-> "set", args |-> <<<<"2">>, <<"B">>>>],  \* 0xd0
    [op |-> "set", args |-> <<<<"2">>, <<"C">>>>],  \* 0xd1
    [op |-> "set", args |-> <<<<"2">>, <<"D">>>>],  \* 0xd2
    [op |-> "set", args |-> <<<<"2">>, <<"E">>>>],  \* 0xd3
    [op |-> "set", args |-> <<<<"2">>, <<"H">>>>],  \* 0xd4
    [op |-> "set", args |-> <<<<"2">>, <<"L">>>>],  \* 0xd5
    [op |-> "set", args |-> <<<<"2">>, <<"(", "H", "L", ")">>>>],  \* 0xd6
    [op |-> "set", args |-> <<<<"2">>, <<"A">>>>],  \* 0xd7
    [op |-> "set", args |-> <<<<"3">>, <<"B">>>>],  \* 0xd8
    [op |-> "set", args |-> <<<<"3">>, <<"C">>>>],  \* 0xd9
    [op |-> "set", args |-> <<<<"3">>, <<"D">>>>],  \* 0xda
    [op |-> "set", args |-> <<<<"3">>, <<"E">>>>],  \* 0xdb
    [op |-> "set", args |-> <<<<"3">>, <<"H">>>>],  \* 0xdc
    [op |-> "set", args |-> <<<<"3">>, <<"L">>>>],  \* 0xdd
    [op |-> "set", args |-> <<<<"3">>, <<"(", "H", "L", ")">>>>],  \* 0xde
    [op |-> "set", args |-> <<<<"3">>, <<"A">>>>],  \* 0xdf
    [op |-> "set", args |-> <<<<"4">>, <<"B">>>>],  \* 0xe0
    [op |-> "set", args |-> <<<<"4">>, <<"C">>>>],  \* 0xe1
    [op |-> "set", args |-> <<<<"4">>, <<"D">>>>],  \* 0xe2
    [op |-> "set", args |-> <<<<"4">>, <<"E">>>>],  \* 0xe3
    [op |-> "set", args |-> <<<<"4">>, <<"H">>>>],  \* 0xe4
    [op |-> "set", args |-> <<<<"4">>, <<"L">>>>],  \* 0xe5
    [op |-> "set", args |-> <<<<"4">>, <<"(", "H", "L", ")">>>>],  \* 0xe6
    [op |-> "set", args |-> <<<<"4">>, <<"A">>>>],  \* 0xe7
    [op |-> "set", args |-> <<<<"5">>, <<"B">>>>],  \* 0xe8
    [op |-> "set", args |-> <<<<"5">>, <<"C">>>>],  \* 0xe9
    [op |-> "set", args |-> <<<<"5">>, <<"D">>>>],  \* 0xea
    [op |-> "set", args |-> <<<<"5">>, <<"E">>>>],  \* 0xeb
    [op |-> "set", args |-> <<<<"5">>, <<"H">>>>],  \* 0xec
    [op |-> "set", args |-> <<<<"5">>, <<"L">>>>],  \* 0xed
    [op |-> "set", args |-> <<<<"5">>, <<"(", "H", "L", ")">>>>],  \* 0xee
    [op |-> "set", args |-> <<<<"5">>, <<"A">>>>],  \* 0xef
    [op |-> "set", args |-> <<<<"6">>, <<"B">>>>],  \* 0xf0
    [op |-> "set", args |-> <<<<"6">>, <<"C">>>>],  \* 0xf1
    [op |-> "set", args |-> <<<<"6">>, <<"D">>>>],  \* 0xf2
    [op |-> "set", args |-> <<<<"6">>, <<"E">>>>],  \* 0xf3
    [op |-> "set", args |-> <<<<"6">>, <<"H">>>>],  \* 0xf4
    [op |-> "set", args |-> <<<<"6">>, <<"L">>>>],  \* 0xf5
    [op |-> "set", args |-> <<<<"6">>, <<"(", "H", "L", ")">>>>],  \* 0xf6
    [op |-> "set", args |-> <<<<"6">>, <<"A">>>>],  \* 0xf7
    [op |-> "set", args |-> <<<<"7">>, <<"B">>>>],  \* 0xf8
    [op |-> "set", args |-> <<<<"7">>, <<"C">>>>],  \* 0xf9
    [op |-> "set", args |-> <<<<"7">>, <<"D">>>>],  \* 0xfa
    [op |-> "set", args |-> <<<<"7">>, <<"E">>>>],  \* 0xfb
    [op |-> "set", args |-> <<<<"7">>, <<"H">>>>],  \* 0xfc
    [op |-> "set", args |-> <<<<"7">>, <<"L">>>>],  \* 0xfd
    [op |-> "set", args |-> <<<<"7">>, <<"(", "H", "L", ")">>>>],  \* 0xfe
    [op |-> "set", args |-> <<<<"7">>, <<"A">>>>]   \* 0xff
>>

\* init_cycle_map, keys 0x00..0xff
BaseCycles == <<
    4, 12, 8, 8, 4, 4, 8, 4, 20, 8, 8, 8, 4, 4, 8, 4,
    4, 12, 8, 8, 4, 4, 8, 4, 12, 8, 8, 8, 4, 4, 8, 4,
    8, 12, 8, 8, 4, 4, 8, 4, 8, 8, 8, 8, 4, 4, 8, 4,
    8, 12, 8, 8, 12, 12, 12, 4, 8, 8, 8, 8, 4, 4, 8, 4,
    4, 4, 4, 4, 4, 4, 8, 4, 4, 4, 4, 4, 4, 4, 8, 4,
    4, 4, 4, 4, 4, 4, 8, 4, 4, 4, 4, 4, 4, 4, 8, 4,
    4, 4, 4, 4, 4, 4, 8, 4, 4, 4, 4, 4, 4, 4, 8, 4,
    8, 8, 8, 8, 8, 8, 4, 8, 4, 4, 4, 4, 4, 4, 8, 4,
    4, 4, 4, 4, 4, 4, 8, 4, 4, 4, 4, 4, 4, 4, 8, 4,
    4, 4, 4, 4, 4, 4, 8, 4, 4, 4, 4, 4, 4, 4, 8, 4,
    4, 4, 4, 4, 4, 4, 8, 4, 4, 4, 4, 4, 4, 4, 8, 4,
    4, 4, 4, 4, 4, 4, 8, 4, 4, 4, 4, 4, 4, 4, 8, 4,
    8, 12, 12, 16, 12, 16, 8, 16, 8, 16, 12, 4, 12, 24, 8, 16,
    8, 12, 12, 0, 12, 16, 8, 16, 8, 16, 12, 0, 12, 0, 8, 16,
    12, 12, 8, 0, 0, 16, 8, 16, 16, 4, 16, 0, 0, 0, 8, 16,
    12, 12, 8, 4, 0, 16, 8, 16, 12, 8, 16, 4, 0, 0, 8, 16
>>

\* init_cycle_map, keys 0xcb00..0xcbff
CbCycles == <<
    8, 8, 8, 8, 8, 8, 16, 8, 8, 8, 8, 8, 8, 8, 16, 8,
    8, 8, 8, 8, 8, 8, 16, 8, 8, 8, 8, 8, 8, 8, 16, 8,
    8, 8, 8, 8, 8, 8, 16, 8, 8, 8, 8, 8, 8, 8, 16, 8,
    8, 8, 8, 8, 8, 8, 16, 8, 8, 8, 8, 8, 8, 8, 16, 8,
    8, 8, 8, 8, 8, 8, 16, 8, 8, 8, 8, 8, 8, 8, 16, 8,
    8, 8, 8, 8, 8, 8, 16, 8, 8, 8, 8, 8, 8, 8, 16, 8,
    8, 8, 8, 8, 8, 8, 16, 8, 8, 8, 8, 8, 8, 8, 16, 8,
    8, 8, 8, 8, 8, 8, 16, 8, 8, 8, 8, 8, 8, 8, 16, 8,
    8, 8, 8, 8, 8, 8, 16, 8, 8, 8, 8, 8, 8, 8, 16, 8,
    8, 8, 8, 8, 8, 8, 16, 8, 8, 8, 8, 8, 8, 8, 16, 8,
    8, 8, 8, 8, 8, 8, 16, 8, 8, 8, 8, 8, 8, 8, 16, 8,
    8, 8, 8, 8, 8, 8, 16, 8, 8, 8, 8, 8, 8, 8, 16, 8,
    8, 8, 8, 8, 8, 8, 16, 8, 8, 8, 8, 8, 8, 8, 16, 8,
    8, 8, 8, 8, 8, 8, 16, 8, 8, 8, 8, 8, 8, 8, 16, 8,
    8, 8, 8, 8, 8, 8, 16, 8, 8, 8, 8, 8, 8, 8, 16, 8,
    8, 8, 8, 8, 8, 8, 16, 8, 8, 8, 8, 8, 8, 8, 16, 8
>>

\* instruction_cycle_map.get(&key).unwrap(): every key 0..0xff and 0xcb00..0xcbff is present
instruction_cycle_map(key) ==
    IF key < 256 THEN BaseCycles[key + 1] ELSE CbCycles[key - 51968 + 1]

----------------------------------------------------------------------------
(* GBCpu.  An execution context x is the GBCpu struct plus `fault`:        *)
(* "none", "panic" (the process aborted), "unknown_op" (it aborted in the  *)
(* default arm of a dispatch) or "hang" (it spins forever).                *)

\* GBCpu::new(mem)
CpuNew(mem) ==
    [sp |-> 0, pc |-> 0, mem |-> mem,
     registers |-> RegisterSetNew({<<"A", "F">>, <<"B", "C">>, <<"D", "E">>, <<"H", "L">>}),
     stop_flag |-> FALSE, last_op_cycles |-> 0, fault |-> "none"]

\* An arithmetic overflow: a panic when the build checks overflow, a wrap otherwise.
Checked(x, overflows) ==
    IF x.fault = "none" /\ overflow_checks /\ overflows
    THEN [x EXCEPT !.fault = "panic"] ELSE x

Hang(x) == IF x.fault = "none" THEN [x EXCEPT !.fault = "hang"] ELSE x

\* self.pc += n
PcAdd(x, n) == Checked([x EXCEPT !.pc = U16(x.pc + n)], x.pc + n > 65535)

\* self.registers.get(&name): the slot for a 16-bit name, the zero-extended
\* half for an alias
registers_get(x, name) ==
    IF name \in DOMAIN x.registers /\ x.registers[name].kind = "Raw"
    THEN get16(x.registers, name)
    ELSE get8(x.registers, name)

\* self.registers.put(&name, data): replaces a 16-bit slot, writes one half
\* through an alias
registers_put(x, name, data) ==
    IF ~RegResolves(x.registers, name) THEN Hang(x)
    ELSE IF x.registers[name].kind = "Raw"
         THEN [x EXCEPT !.registers = put16(x.registers, name, data)]
         ELSE [x EXCEPT !.registers = put8(x.registers, name, data)]

\* self.registers.inc(&name) / dec(&name): put(name, get(name) +/- 1), wrapping
registers_inc(x, name) == registers_put(x, name, U16(registers_get(x, name) + 1))
registers_dec(x, name) == registers_put(x, name, U16(registers_get(x, name) + 65535))

is_interrupt_enabled(x, ipos) == BitVec_from_bytes(MemGet(x.mem, 65535))[7 - ipos]

interrupt_enable(x, ipos, enable) ==
    LET flags == BitVec_from_bytes(MemGet(x.mem, 65535))
    IN  [x    |-> [x EXCEPT !.mem = MemPut(x.mem, 65535,
                                     BitVec_to_byte(BitVec_set(flags, 7 - ipos, enable)))],
         prev |-> flags[7 - ipos]]

\* set_interrupt_request that counts the bit from the most significant end
set_interrupt_request_from_msb(x, ipos, request) ==
    LET requests == BitVec_from_bytes(MemGet(x.mem, 65295))
    IN  [x    |-> [x EXCEPT !.mem = MemPut(x.mem, 65295,
                                     BitVec_to_byte(BitVec_set(requests, ipos, request)))],
         prev |-> requests[ipos]]

set_interrupt_request(x, ipos, request) ==
    LET requests == BitVec_from_bytes(MemGet(x.mem, 65295))
    IN  [x    |-> [x EXCEPT !.mem = MemPut(x.mem, 65295,
                                     BitVec_to_byte(BitVec_set(requests, 7 - ipos, request)))],
         prev |-> requests[7 - ipos]]

\* set_memreg_ly that stores the byte one address further
set_memreg_ly_at_ff45(x, byte) == [x EXCEPT !.mem = MemPut(x.mem, 65349, byte)]

\* cpu.set_memreg_ly(line): stores the byte in the scanline register 0xFF44
set_memreg_ly(x, byte) == [x EXCEPT !.mem = MemPut(x.mem, 65348, byte)]

\* stack_push that stores the least significant byte first
stack_push_low_first(x, value) ==
    LET x1 == Checked([x EXCEPT !.sp = U16(x.sp + 65535)], x.sp < 1)
        x2 == [x1 EXCEPT !.mem = MemPut(x1.mem, x1.sp, U8(value))]
        x3 == Checked([x2 EXCEPT !.sp = U16(x2.sp + 65535)], x2.sp < 1)
    IN  [x3 EXCEPT !.mem = MemPut(x3.mem, x3.sp, U8(value \div 256))]

stack_push(x, value) ==
    LET x1 == Checked([x EXCEPT !.sp = U16(x.sp + 65535)], x.sp < 1)
        x2 == [x1 EXCEPT !.mem = MemPut(x1.mem, x1.sp, U8(value \div 256))]
        x3 == Checked([x2 EXCEPT !.sp = U16(x2.sp + 65535)], x2.sp < 1)
    IN  [x3 EXCEPT !.mem = MemPut(x3.mem, x3.sp, U8(value))]

stack_pop(x) ==
    LET lo == MemGet(x.mem, x.sp)
        x1 == Checked([x EXCEPT !.sp = U16(x.sp + 1)], x.sp + 1 > 65535)
        hi == MemGet(x1.mem, x1.sp)
        x2 == Checked([x1 EXCEPT !.sp = U16(x1.sp + 1)], x1.sp + 1 > 65535)
    IN  [x |-> x2, value |-> BitOr(lo, hi * 256)]

(* GBData *)
GBData(tag) == [tag |-> tag, v |-> 0, addr |-> 0, size |-> 0, name |-> <<>>,
                inc |-> FALSE, dec |-> FALSE, is_addr |-> FALSE, overflows |-> FALSE]

Contains(s, ch) == \E i \in DOMAIN s : s[i] = ch
Without(s, ch)  == SelectSeq(s, LAMBDA c : c # ch)

arg_parse(x, arg_in) ==
    LET is_address == Contains(arg_in, "(")
        a1      == IF is_address THEN Without(Without(arg_in, "("), ")") ELSE arg_in
        has_inc == Contains(a1, "+")
        a2      == IF has_inc THEN Without(a1, "+") ELSE a1
        has_dec == Contains(a2, "-")
        arg     == IF has_dec THEN Without(a2, "-") ELSE a2
        b0      == MemGet(x.mem, x.pc)
        next_ov == x.pc + 1 > 65535                     \* (self.pc+1) in u16
        w       == BitOr(b0, MemGet(x.mem, U16(x.pc + 1)) * 256)
    IN  IF arg = <<"S", "P">> THEN GBData("SP")
        ELSE IF arg = <<"P", "C">> THEN GBData("PC")
        ELSE IF arg = <<"r", "8">> THEN [GBData("R8") EXCEPT !.v = AsI8(b0)]
        ELSE IF arg = <<"d", "8">> THEN
            IF is_address
            THEN [GBData("ADDRESS") EXCEPT !.addr = U8(b0 + U8(65280)), !.size = 1]
            ELSE [GBData("D8") EXCEPT !.v = b0]
        ELSE IF arg = <<"d", "1", "6">> THEN
            IF is_address
            THEN [GBData("ADDRESS") EXCEPT !.addr = U16(w + 65280), !.size = 2,
                                           !.overflows = next_ov \/ w + 65280 > 65535]
            ELSE [GBData("D16") EXCEPT !.v = w, !.overflows = next_ov]
        ELSE IF arg = <<"a", "8">> THEN
            IF is_address
            THEN [GBData("ADDRESS") EXCEPT !.addr = b0 + 65280, !.size = 1]
            ELSE [GBData("D8") EXCEPT !.v = U8(b0)]
        ELSE IF arg = <<"a", "1", "6">> THEN
            IF is_address
            THEN [GBData("ADDRESS") EXCEPT !.addr = w, !.size = 2, !.overflows = next_ov]
            ELSE [GBData("D16") EXCEPT !.v = w, !.overflows = next_ov]
        ELSE [GBData("REG") EXCEPT !.name = arg, !.inc = has_inc, !.dec = has_dec,
                                   !.is_addr = is_address]

\* arg_parse as a step of a handler: an overflow inside it aborts the handler
ArgFault(x, argp) == Checked(x, argp.overflows)

data_parse(x, arg) ==
    CASE arg.tag = "R8"  -> [x |-> PcAdd(x, 1), value |-> AsU16(arg.v)]
      [] arg.tag = "D8"  -> [x |-> PcAdd(x, 1), value |-> arg.v]
      [] arg.tag = "D16" -> [x |-> PcAdd(x, 2), value |-> arg.v]
      [] arg.tag = "REG" ->
            LET r     == registers_get(x, arg.name)
                value == IF arg.is_addr THEN MemGet(x.mem, r) ELSE r
                x1    == IF arg.inc THEN registers_inc(x, arg.name) ELSE x
                x2    == IF arg.dec THEN registers_dec(x1, arg.name) ELSE x1
            IN  [x |-> x2, value |-> value]
      [] arg.tag = "ADDRESS" -> [x |-> PcAdd(x, arg.size), value |-> MemGet(x.mem, arg.addr)]
      [] arg.tag = "SP"  -> [x |-> x, value |-> x.sp]
      [] arg.tag = "PC"  -> [x |-> x, value |-> x.pc]

\* arg_parse followed by data_parse, as the handlers chain them
Resolve(x, arg_in) ==
    LET argp == arg_parse(x, arg_in)
    IN  data_parse(ArgFault(x, argp), argp)

\* The opening of every implemented handler: look the byte at pc up in the
\* cycle map, record it, step over the byte.
Prologue(x) ==
    PcAdd([x EXCEPT !.last_op_cycles = instruction_cycle_map(MemGet(x.mem, x.pc))], 1)

Flags(x) == BitVec_from_bytes(U8(registers_get(x, <<"F">>)))

\* the `match args[0]` of op_call / op_jr / op_ret
Condition(flags, cc) ==
    CASE cc = <<"N", "Z">> -> ~flags[0]
      [] cc = <<"Z">>      -> flags[0]
      [] cc = <<"N", "C">> -> ~flags[3]
      [] cc = <<"C">>      -> flags[3]
      [] OTHER             -> TRUE

Last(s) == s[Len(s)]

op_call(x, args) ==
    LET x1 == Prologue(x)
        condition == Condition(Flags(x1), args[1])
        d  == Resolve(x1, Last(args))
    IN  IF condition
        THEN [stack_push(d.x, d.x.pc) EXCEPT !.pc = d.value]
        ELSE d.x

op_cp(x, args) ==
    LET x1    == Prologue(x)
        reg_a == registers_get(x1, <<"A">>)
        d     == Resolve(x1, args[1])
        data  == d.value
        f1    == BitVec_set(Flags(d.x), 1, TRUE)
        f2    == BitVec_set(f1, 0, reg_a = data)
        sub   == reg_a - BitAnd(data, 15)
        half_carry == BitAnd(U16(sub + 65536), 240) # 0
        f3    == BitVec_set(f2, 2, half_carry)
        f4    == BitVec_set(f3, 3, reg_a > data)
    IN  registers_put(Checked(d.x, sub < 0), <<"F">>, BitVec_to_byte(f4))

op_dec(x, args) ==
    LET x1 == Prologue(x)
        change_flags == Len(args[1]) = 1
        flags == IF change_flags THEN BitVec_set(Flags(x1), 1, TRUE) ELSE Flags(x1)
        argp  == arg_parse(x1, args[1])
        x2    == ArgFault(x1, argp)
    IN  CASE argp.tag = "REG" ->
               IF argp.is_addr
               THEN LET reg_value  == registers_get(x2, argp.name)
                        mem_value  == MemGet(x2.mem, reg_value)
                        half_carry == BitAnd(U16(mem_value + 65535), 240) # 0
                        dec_value  == U16(mem_value + 65535)
                        x3 == Checked(x2, mem_value < 1)
                        f  == BitVec_set(BitVec_set(flags, 0, dec_value = 0), 2, half_carry)
                        x4 == IF change_flags
                              THEN registers_put(x3, <<"F">>, BitVec_to_byte(f)) ELSE x3
                    IN  [x4 EXCEPT !.mem = MemPut(x4.mem, reg_value, U8(dec_value))]
               ELSE LET reg_value  == registers_get(x2, argp.name)
                        half_carry == BitAnd(U16(reg_value + 65535), 240) # 0
                        dec_value  == U16(reg_value + 65535)
                        x3 == registers_put(Checked(x2, reg_value < 1), argp.name, dec_value)
                        f  == BitVec_set(BitVec_set(flags, 0, dec_value = 0), 2, half_carry)
                    IN  IF change_flags
                        THEN registers_put(x3, <<"F">>, BitVec_to_byte(f)) ELSE x3
          [] argp.tag = "SP" -> Checked([x2 EXCEPT !.sp = U16(x2.sp + 65535)], x2.sp < 1)
          [] OTHER -> x2

op_inc(x, args) ==
    LET x1 == Prologue(x)
        change_flags == Len(args[1]) = 1
        flags == IF change_flags THEN BitVec_set(Flags(x1), 1, FALSE) ELSE Flags(x1)
        argp  == arg_parse(x1, args[1])
        x2    == ArgFault(x1, argp)
    IN  CASE argp.tag = "REG" ->
               IF argp.is_addr
               THEN LET reg_value  == registers_get(x2, argp.name)
                        mem_value  == MemGet(x2.mem, reg_value)
                        half_carry == BitAnd(BitAnd(mem_value, 15) + 1, 16) = 16
                        inc_value  == mem_value + 1
                        f  == BitVec_set(BitVec_set(flags, 0, inc_value = 0), 2, half_carry)
                        x3 == IF change_flags
                              THEN registers_put(x2, <<"F">>, BitVec_to_byte(f)) ELSE x2
                    IN  [x3 EXCEPT !.mem = MemPut(x3.mem, reg_value, U8(inc_value))]
               ELSE LET reg_value  == registers_get(x2, argp.name)
                        half_carry == BitAnd(BitAnd(reg_value, 15) + 1, 16) = 16
                        inc_value  == U16(reg_value + 1)
                        x3 == registers_put(Checked(x2, reg_value + 1 > 65535),
                                            argp.name, inc_value)
                        f  == BitVec_set(BitVec_set(flags, 0, inc_value = 0), 2, half_carry)
                    IN  IF change_flags
                        THEN registers_put(x3, <<"F">>, BitVec_to_byte(f)) ELSE x3
          [] argp.tag = "SP" -> Checked([x2 EXCEPT !.sp = U16(x2.sp + 1)], x2.sp + 1 > 65535)
          [] OTHER -> x2

op_jr(x, args) ==
    LET x1 == Prologue(x)
        condition == Condition(Flags(x1), args[1])
        d    == Resolve(x1, Last(args))
        data == AsI16(d.value)
        sum  == AsI16(d.x.pc) + data
        x2   == Checked(d.x, sum > 32767 \/ sum < -32768)
        destination == AsU16(sum)
    IN  IF condition THEN [x2 EXCEPT !.pc = destination] ELSE x2

op_ldh(x, args) ==
    LET x1   == Prologue(x)
        argp == arg_parse(x1, args[1])
        x2   == ArgFault(x1, argp)
    IN  CASE argp.tag = "ADDRESS" ->
               LET d == Resolve(PcAdd(x2, argp.size), args[2])
               IN  [d.x EXCEPT !.mem = MemPut(d.x.mem, argp.addr, U8(d.value))]
          [] argp.tag = "REG" ->
               LET d == Resolve(x2, args[2])
               IN  registers_put(d.x, argp.name, d.value)
          [] OTHER -> x2

\* op_ld whose "+" destination counts down
op_ld_plus_as_minus(x, args) ==
    LET x1   == Prologue(x)
        argp == arg_parse(x1, args[1])
        x2   == ArgFault(x1, argp)
    IN  CASE argp.tag = "SP" ->
               LET d == Resolve(x2, args[2])
               IN  [d.x EXCEPT !.sp = d.value]
          [] argp.tag = "REG" ->
               LET d  == Resolve(x2, args[2])
                   x3 == IF argp.is_addr
                         THEN [d.x EXCEPT !.mem =
                                  MemPut(d.x.mem, registers_get(d.x, argp.name), U8(d.value))]
                         ELSE registers_put(d.x, argp.name, d.value)
                   x4 == IF argp.inc THEN registers_dec(x3, argp.name) ELSE x3
               IN  IF argp.dec THEN registers_dec(x4, argp.name) ELSE x4
          [] argp.tag = "ADDRESS" ->
               LET d == Resolve(PcAdd(x2, argp.size), args[2])
               IN  [d.x EXCEPT !.mem = MemPut(d.x.mem, argp.addr, U8(d.value))]
          [] OTHER -> x2

op_ld(x, args) ==
    LET x1   == Prologue(x)
        argp == arg_parse(x1, args[1])
        x2   == ArgFault(x1, argp)
    IN  CASE argp.tag = "SP" ->
               LET d == Resolve(x2, args[2])
               IN  [d.x EXCEPT !.sp = d.value]
          [] argp.tag = "REG" ->
               LET d  == Resolve(x2, args[2])
                   x3 == IF argp.is_addr
                         THEN [d.x EXCEPT !.mem =
                                  MemPut(d.x.mem, registers_get(d.x, argp.name), U8(d.value))]
                         ELSE registers_put(d.x, argp.name, d.value)
                   x4 == IF argp.inc THEN registers_inc(x3, argp.name) ELSE x3
               IN  IF argp.dec THEN registers_dec(x4, argp.name) ELSE x4
          [] argp.tag = "ADDRESS" ->
               LET d == Resolve(PcAdd(x2, argp.size), args[2])
               IN  [d.x EXCEPT !.mem = MemPut(d.x.mem, argp.addr, U8(d.value))]
          [] OTHER -> x2

op_pop(x, args) ==
    LET x1   == Prologue(x)
        argp == arg_parse(x1, args[1])
        x2   == ArgFault(x1, argp)
    IN  IF argp.tag = "REG"
        THEN LET p == stack_pop(x2) IN registers_put(p.x, argp.name, p.value)
        ELSE x2

op_push(x, args) ==
    LET x1   == Prologue(x)
        argp == arg_parse(x1, args[1])
        x2   == ArgFault(x1, argp)
    IN  IF argp.tag = "REG"
        THEN stack_push(x2, registers_get(x2, argp.name))
        ELSE x2

op_ret(x, args) ==
    LET x1 == Prologue(x)
        condition == IF Len(args) = 0 THEN TRUE ELSE Condition(Flags(x1), args[1])
        p  == stack_pop(x1)
    IN  IF condition THEN [p.x EXCEPT !.pc = p.value] ELSE p.x

\* u8::rotate_left(1)
RotateLeft8(data) == U8(data * 2) + (data \div 128)

op_rla(x) ==
    LET x1   == Prologue(x)
        f1   == BitVec_set(BitVec_set(Flags(x1), 2, FALSE), 1, FALSE)
        data == U8(registers_get(x1, <<"A">>))
        f2   == BitVec_set(f1, 3, BitVec_from_bytes(data)[0])
        data_rotated == RotateLeft8(data)
        f3   == BitVec_set(f2, 0, data_rotated = 0)
    IN  registers_put(registers_put(x1, <<"F">>, BitVec_to_byte(f3)), <<"A">>, data_rotated)

op_xor(x, args) ==
    LET x1    == Prologue(x)
        reg_a == registers_get(x1, <<"A">>)
        argp  == arg_parse(x1, args[1])
        x2    == ArgFault(x1, argp)
        data  == CASE argp.tag = "REG" ->
                        LET value == registers_get(x2, argp.name)
                        IN  IF argp.is_addr THEN MemGet(x2.mem, value) ELSE value
                   [] argp.tag = "D8" -> argp.v
                   [] OTHER -> 0
        x3    == IF argp.tag = "D8" THEN PcAdd(x2, 1) ELSE x2
        res   == BitXor(reg_a, data)
        flags == [BitVec_from_bytes(0) EXCEPT ![0] = BitAnd(res, 255) = 0]
    IN  registers_put(registers_put(x3, <<"A">>, res), <<"F">>, BitVec_to_byte(flags))

\* args[0].parse::<usize>() for the one-digit strings of the table
ParseDigit(s) ==
    CASE s = <<"0">> -> 0 [] s = <<"1">> -> 1 [] s = <<"2">> -> 2 [] s = <<"3">> -> 3
      [] s = <<"4">> -> 4 [] s = <<"5">> -> 5 [] s = <<"6">> -> 6 [] s = <<"7">> -> 7

\* op_bit that counts the bit from the most significant end
op_bit_from_msb(x, args) ==
    LET x1   == Prologue(x)
        bit  == ParseDigit(args[1])
        d    == Resolve(x1, args[2])
        data == U8(d.value)
        f1   == BitVec_set(BitVec_set(Flags(d.x), 2, TRUE), 1, FALSE)
        f2   == BitVec_set(f1, 0, ~BitVec_from_bytes(data)[bit])
    IN  registers_put(d.x, <<"F">>, BitVec_to_byte(f2))

op_bit(x, args) ==
    LET x1   == Prologue(x)
        bit  == ParseDigit(args[1])
        d    == Resolve(x1, args[2])
        data == U8(d.value)
        f1   == BitVec_set(BitVec_set(Flags(d.x), 2, TRUE), 1, FALSE)
        f2   == BitVec_set(f1, 0, ~BitVec_from_bytes(data)[7 - bit])
    IN  registers_put(d.x, <<"F">>, BitVec_to_byte(f2))

op_rl(x, args) ==
    LET x1   == Prologue(x)
        f1   == BitVec_set(BitVec_set(Flags(x1), 2, FALSE), 1, FALSE)
        argp == arg_parse(x1, args[1])
        x2   == ArgFault(x1, argp)
    IN  IF argp.tag = "REG"
        THEN LET data == IF argp.is_addr
                         THEN MemGet(x2.mem, registers_get(x2, argp.name))
                         ELSE U8(registers_get(x2, argp.name))
                 f2   == BitVec_set(f1, 3, BitVec_from_bytes(data)[0])
                 data_rotated == RotateLeft8(data)
                 f3   == BitVec_set(f2, 0, data_rotated = 0)
             IN  registers_put(registers_put(x2, <<"F">>, BitVec_to_byte(f3)),
                               argp.name, data_rotated)
        ELSE x2

\* The handlers whose body is empty in the source: op_adc, op_add, op_and,
\* op_ccf, op_cpl, op_daa, op_di, op_ei, op_halt, op_jp, op_none, op_nop,
\* op_or, op_reti, op_rlca, op_rra, op_rrca, op_rst, op_sbc, op_scf, op_stop,
\* op_sub, op_res, op_rlc, op_rrc, op_rr, op_set, op_sla, op_sra, op_srl, op_swap.
op_empty(x) == x

\* the `_ => panic!("Unknown OP")` arm of both dispatch functions
UnknownOp(x) == IF x.fault = "none" THEN [x EXCEPT !.fault = "unknown_op"] ELSE x

\* the empty handlers without op_none
EmptyHandlers_without_none ==
    {"adc", "add", "and", "ccf", "cpl", "daa", "di", "ei", "halt", "jp",
     "nop", "or", "reti", "rlca", "rra", "rrca", "rst", "sbc", "scf", "stop", "sub",
     "res", "rlc", "rrc", "rr", "set", "sla", "sra", "srl", "swap"}

EmptyHandlers ==
    {"adc", "add", "and", "ccf", "cpl", "daa", "di", "ei", "halt", "jp", "none",
     "nop", "or", "reti", "rlca", "rra", "rrca", "rst", "sbc", "scf", "stop", "sub",
     "res", "rlc", "rrc", "rr", "set", "sla", "sra", "srl", "swap"}

exec_next_op_cb(x) ==
    LET byte == MemGet(x.mem, x.pc)
        e    == CbTable[BitAnd(byte, 255) + 1]
    IN  CASE e.op = "bit" -> op_bit(x, e.args)
          [] e.op = "rl"  -> op_rl(x, e.args)
          [] e.op \in EmptyHandlers -> op_empty(x)
          [] OTHER -> UnknownOp(x)

op_prefix(x, args) == exec_next_op_cb(PcAdd(x, 1))

exec_next_op(x) ==
    LET byte == MemGet(x.mem, x.pc)
        e    == BaseTable[BitAnd(byte, 255) + 1]
    IN  CASE e.op = "ld"     -> op_ld(x, e.args)
          [] e.op = "ldh"    -> op_ldh(x, e.args)
          [] e.op = "inc"    -> op_inc(x, e.args)
          [] e.op = "dec"    -> op_dec(x, e.args)
          [] e.op = "cp"     -> op_cp(x, e.args)
          [] e.op = "xor"    -> op_xor(x, e.args)
          [] e.op = "rla"    -> op_rla(x)
          [] e.op = "jr"     -> op_jr(x, e.args)
          [] e.op = "call"   -> op_call(x, e.args)
          [] e.op = "ret"    -> op_ret(x, e.args)
          [] e.op = "push"   -> op_push(x, e.args)
          [] e.op = "pop"    -> op_pop(x, e.args)
          [] e.op = "prefix" -> op_prefix(x, e.args)
          [] e.op \in EmptyHandlers -> op_empty(x)
          [] OTHER -> UnknownOp(x)

\* GBCpu::step.  A step that aborts or hangs leaves nothing to observe but
\* the fault: the state is kept as it was when the step began.
StepResult(x, y) == IF y.fault = "none" THEN y ELSE [x EXCEPT !.fault = y.fault]

step(x) == StepResult(x, exec_next_op(x))

----------------------------------------------------------------------------
(* GBGpu *)

\* GBGpu::new()
GpuNew == [mode |-> "HBLANK", cycles |-> 0, drawing_line |-> 0]

\* The four arms of GBGpu::step, on the GPU g (cycles already added) and the CPU x
\* HBLANK arm that enters VBLANK one line later
GpuHBLANK_at144(g, x) ==
    IF g.cycles >= 204
    THEN LET line == g.drawing_line + 1
             x1   == set_memreg_ly(x, U8(line))
         IN  IF line = 144
             THEN [gpu |-> [mode |-> "VBLANK", cycles |-> 0, drawing_line |-> line],
                   cpu |-> IF is_interrupt_enabled(x1, 0)
                           THEN set_interrupt_request(x1, 0, TRUE).x ELSE x1]
             ELSE [gpu |-> [mode |-> "OAM", cycles |-> 0, drawing_line |-> line],
                   cpu |-> x1]
    ELSE [gpu |-> g, cpu |-> x]

\* HBLANK arm that counts two lines at once
GpuHBLANK_twolines(g, x) ==
    IF g.cycles >= 204
    THEN LET line == g.drawing_line + 2
             x1   == set_memreg_ly(x, U8(line))
         IN  IF line = 143
             THEN [gpu |-> [mode |-> "VBLANK", cycles |-> 0, drawing_line |-> line],
                   cpu |-> IF is_interrupt_enabled(x1, 0)
                           THEN set_interrupt_request(x1, 0, TRUE).x ELSE x1]
             ELSE [gpu |-> [mode |-> "OAM", cycles |-> 0, drawing_line |-> line],
                   cpu |-> x1]
    ELSE [gpu |-> g, cpu |-> x]

\* HBLANK arm that raises the request whatever the enable byte holds
GpuHBLANK_always_request(g, x) ==
    IF g.cycles >= 204
    THEN LET line == g.drawing_line + 1
             x1   == set_memreg_ly(x, U8(line))
         IN  IF line = 143
             THEN [gpu |-> [mode |-> "VBLANK", cycles |-> 0, drawing_line |-> line],
                   cpu |-> set_interrupt_request(x1, 0, TRUE).x]
             ELSE [gpu |-> [mode |-> "OAM", cycles |-> 0, drawing_line |-> line],
                   cpu |-> x1]
    ELSE [gpu |-> g, cpu |-> x]

GpuHBLANK(g, x) ==
    IF g.cycles >= 204
    THEN LET line == g.drawing_line + 1
             x1   == set_memreg_ly(x, U8(line))
         IN  IF line = 143
             THEN [gpu |-> [mode |-> "VBLANK", cycles |-> 0, drawing_line |-> line],
                   cpu |-> IF is_interrupt_enabled(x1, 0)
                           THEN set_interrupt_request(x1, 0, TRUE).x ELSE x1]
             ELSE [gpu |-> [mode |-> "OAM", cycles |-> 0, drawing_line |-> line],
                   cpu |-> x1]
    ELSE [gpu |-> g, cpu |-> x]

\* VBLANK arm that wraps one line later
GpuVBLANK_wrap154(g, x) ==
    IF g.cycles >= 456
    THEN LET line == g.drawing_line + 1
             x1   == set_memreg_ly(x, U8(line))
         IN  IF line > 154
             THEN [gpu |-> [mode |-> "OAM", cycles |-> 0, drawing_line |-> 0],
                   cpu |-> set_memreg_ly(x1, U8(0))]
             ELSE [gpu |-> [g EXCEPT !.cycles = 0, !.drawing_line = line], cpu |-> x1]
    ELSE [gpu |-> g, cpu |-> x]

\* VBLANK arm that does not write the scanline register again at the wrap
GpuVBLANK_single_write(g, x) ==
    IF g.cycles >= 456
    THEN LET line == g.drawing_line + 1
             x1   == set_memreg_ly(x, U8(line))
         IN  IF line > 153
             THEN [gpu |-> [mode |-> "OAM", cycles |-> 0, drawing_line |-> 0], cpu |-> x1]
             ELSE [gpu |-> [g EXCEPT !.cycles = 0, !.drawing_line = line], cpu |-> x1]
    ELSE [gpu |-> g, cpu |-> x]

GpuVBLANK(g, x) ==
    IF g.cycles >= 456
    THEN LET line == g.drawing_line + 1
             x1   == set_memreg_ly(x, U8(line))
         IN  IF line > 153
             THEN [gpu |-> [mode |-> "OAM", cycles |-> 0, drawing_line |-> 0],
                   cpu |-> set_memreg_ly(x1, U8(0))]
             ELSE [gpu |-> [g EXCEPT !.cycles = 0, !.drawing_line = line], cpu |-> x1]
    ELSE [gpu |-> g, cpu |-> x]

\* OAM arm that lasts one step of 4 cycles longer
GpuOAM_at84(g, x) ==
    IF g.cycles >= 84
    THEN [gpu |-> [g EXCEPT !.cycles = 0, !.mode = "VRAM"], cpu |-> x]
    ELSE [gpu |-> g, cpu |-> x]

GpuOAM(g, x) ==
    IF g.cycles >= 80
    THEN [gpu |-> [g EXCEPT !.cycles = 0, !.mode = "VRAM"], cpu |-> x]
    ELSE [gpu |-> g, cpu |-> x]

\* VRAM arm that carries the cycles above the threshold over
GpuVRAM_carry(g, x) ==
    IF g.cycles >= 172
    THEN [gpu |-> [g EXCEPT !.cycles = g.cycles - 172, !.mode = "HBLANK"], cpu |-> x]
    ELSE [gpu |-> g, cpu |-> x]

GpuVRAM(g, x) ==
    IF g.cycles >= 172
    THEN [gpu |-> [g EXCEPT !.cycles = 0, !.mode = "HBLANK"], cpu |-> x]
    ELSE [gpu |-> g, cpu |-> x]

\* GBGpu::step(cpu, display)
\* gpu.step() that overwrites the counter with the cost instead of adding it
gpu_step_assign(g, x) ==
    LET g1 == [g EXCEPT !.cycles = x.last_op_cycles]
    IN  CASE g1.mode = "HBLANK" -> GpuHBLANK(g1, x)
          [] g1.mode = "VBLANK" -> GpuVBLANK(g1, x)
          [] g1.mode = "OAM"    -> GpuOAM(g1, x)
          [] g1.mode = "VRAM"   -> GpuVRAM(g1, x)

gpu_step(g, x) ==
    LET g1 == [g EXCEPT !.cycles = g.cycles + x.last_op_cycles]
    IN  CASE g1.mode = "HBLANK" -> GpuHBLANK(g1, x)
          [] g1.mode = "VBLANK" -> GpuVBLANK(g1, x)
          [] g1.mode = "OAM"    -> GpuOAM(g1, x)
          [] g1.mode = "VRAM"   -> GpuVRAM(g1, x)

----------------------------------------------------------------------------
(* The driver (main.rs) and the history kept for the properties            *)

\* main, lines 24-32: the ROM file is loaded byte by byte from address 0.
\* A ROM is given as the set of its <<position, byte>> pairs.
RomLoad(rom) ==
    [a \in {p[1] : p \in {q \in rom : q[2] # 0}} |->
        (CHOOSE p \in rom : p[1] = a)[2]]

Threshold(mode) ==
    CASE mode = "OAM" -> 80 [] mode = "VRAM" -> 172
      [] mode = "HBLANK" -> 204 [] mode = "VBLANK" -> 456

NoWindow == [open |-> FALSE, sum |-> 0, start_line |-> 0, phases |-> <<>>, exact |-> TRUE]

\* The window opened at the latest step boundary with the GPU in OAM and
\* counter 0: cycles consumed since, phases visited, and whether every
\* threshold was met exactly.
WinNext(w, g, g2, cost) ==
    LET base == IF g.mode = "OAM" /\ g.cycles = 0
                THEN [open |-> TRUE, sum |-> 0, start_line |-> g.drawing_line,
                      phases |-> <<"OAM">>, exact |-> TRUE]
                ELSE w
        crossed == g.cycles + cost >= Threshold(g.mode)
    IN  IF ~base.open THEN base
        ELSE [base EXCEPT
                !.sum    = @ + cost,
                !.phases = IF g2.mode # g.mode THEN Append(@, g2.mode) ELSE @,
                !.exact  = @ /\ (crossed => g.cycles + cost = Threshold(g.mode))]

NoVRun == [state |-> "none", periods |-> 0]

\* Line periods completed in VBLANK since it was entered
VRunNext(v, g, g2, cost) ==
    IF g.mode # "VBLANK"
    THEN IF g2.mode = "VBLANK" THEN [state |-> "in", periods |-> 0] ELSE v
    ELSE IF g.cycles + cost >= Threshold("VBLANK")
         THEN [state |-> IF g2.mode = "VBLANK" THEN "in" ELSE "left",
               periods |-> v.periods + 1]
         ELSE v

NoClock == [all4 |-> TRUE, changed |-> FALSE, since |-> 0, gap |-> 0,
            wrapped |-> FALSE, since0 |-> 0, frame |-> 0]

\* While every gpu.step() has consumed 4 cycles: the cycles consumed since
\* the latest change of the drawing line and between the latest two changes
\* (gap), and the same for the latest returns of the line to 0 (frame).  A gap
\* or frame of 0 says there have not been two yet.  After a step of another
\* cost nothing more is recorded.
ClockNext(c, g, g2, cost) ==
    IF ~c.all4 \/ cost # 4 THEN [NoClock EXCEPT !.all4 = FALSE]
    ELSE LET change == g2.drawing_line # g.drawing_line
             wrap   == change /\ g2.drawing_line = 0
         IN  [all4    |-> TRUE,
              changed |-> c.changed \/ change,
              since   |-> IF change THEN 0 ELSE IF c.changed THEN c.since + cost ELSE 0,
              gap     |-> IF change /\ c.changed THEN c.since + cost ELSE c.gap,
              wrapped |-> c.wrapped \/ wrap,
              since0  |-> IF wrap THEN 0 ELSE IF c.wrapped THEN c.since0 + cost ELSE 0,
              frame   |-> IF wrap /\ c.wrapped THEN c.since0 + cost ELSE c.frame]

\* the latest two CPU snapshots taken before a cpu.step(), newest first
PreNext(p, x) == IF p = <<>> THEN <<x>> ELSE <<x, p[1]>>

NoGpre == [acted |-> FALSE, gpu |-> GpuNew, cpu |-> CpuNew(MemNew)]

\* no public method has been called directly
NoCall == [fn |-> "none", name |-> <<>>, data |-> 0, ipos |-> 0, flag |-> FALSE, ret |-> FALSE,
           value |-> 0]

\* ROM images of the driver runs
RomZero   == {}
RomInc    == {<<0, 60>>}                                       \* INC A; then zeros
RomLdB    == {<<0, 6>>, <<1, 1>>}                              \* LD B,1
RomJr     == {<<0, 24>>, <<1, 254>>}                           \* JR -2
RomJrIE   == RomJr \cup {<<65535, 1>>}                         \* same, vblank enabled
RomAck    == {<<0, 175>>, <<1, 224>>, <<2, 15>>, <<3, 24>>, <<4, 251>>, <<65535, 1>>}
                                              \* XOR A; LDH (0x0F),A; JR -5; vblank enabled
RomRet    == {<<0, 201>>}                                      \* RET
RomLdSp   == {<<0, 8>>, <<1, 0>>, <<2, 192>>}                  \* LD (0xC000),SP
RomCall   == {<<0, 49>>, <<1, 0>>, <<2, 208>>, <<3, 205>>, <<4, 0>>, <<5, 1>>}
                                              \* LD SP,0xD000; CALL 0x0100
RomCb     == {<<0, 203>>, <<1, 124>>, <<65535, 1>>, <<65295, 1>>}
                                              \* BIT 7,H; request bit already set
RomXorJr  == {<<0, 175>>, <<1, 24>>, <<2, 253>>}               \* XOR A; JR -3
RomPopAf  == {<<0, 241>>}                    \* POP AF with sp = 0: pops its own opcode

Roms == {RomZero, RomInc, RomLdB, RomJr, RomJrIE, RomAck, RomRet, RomLdSp,
         RomCall, RomCb, RomXorJr, RomPopAf}

Init ==
    /\ overflow_checks \in BOOLEAN
    /\ \E rom \in Roms : cpu = CpuNew(RomLoad(rom))
    /\ gpu = GpuNew
    /\ turn = "cpu"
    /\ pre = <<>>
    /\ gpre = NoGpre
    /\ win = NoWindow
    /\ vrun = NoVRun
    /\ lclk = NoClock
    /\ applied = 0
    /\ call = NoCall

\* main_loop / read_loop: cpu.step()
CpuStep ==
    /\ turn = "cpu"
    /\ cpu.fault = "none"
    /\ cpu' = step(cpu)
    /\ pre' = PreNext(pre, cpu)
    /\ turn' = "gpu"
    /\ UNCHANGED <<gpu, overflow_checks, gpre, win, vrun, lclk, applied, call>>

\* main_loop / read_loop: gpu.step(&mut cpu, &mut display)
GpuStep ==
    /\ turn = "gpu"
    /\ cpu.fault = "none"
    /\ LET r == gpu_step(gpu, cpu)
       IN  /\ gpu' = r.gpu
           /\ cpu' = r.cpu
           /\ gpre' = [acted |-> TRUE, gpu |-> gpu, cpu |-> cpu]
           /\ win' = WinNext(win, gpu, r.gpu, cpu.last_op_cycles)
           /\ vrun' = VRunNext(vrun, gpu, r.gpu, cpu.last_op_cycles)
           /\ lclk' = ClockNext(lclk, gpu, r.gpu, cpu.last_op_cycles)
    /\ turn' = "cpu"
    /\ UNCHANGED <<overflow_checks, pre, applied, call>>

\* The ends of the loops between two iterations.  main_loop is left for
\* read_loop when pc is 0x40 (main.rs 59-61) or on a Quit event (63-67);
\* read_loop goes on calling cpu.step() and gpu.step() (82-83), so leaving
\* main_loop changes nothing here.  read_loop ends the program between two
\* iterations: the memory dump fails (80), the read of a line from stdin
\* fails (90), the line is "q" (92-94), or a Quit event arrived (96-100).
\* All of them need main_loop to have run an iteration.
LoopEnd ==
    /\ turn = "cpu"
    /\ cpu.fault = "none"
    /\ gpre.acted
    /\ turn' = "ended"
    /\ UNCHANGED <<cpu, gpu, overflow_checks, pre, gpre, win, vrun, lclk, applied, call>>

Next == CpuStep \/ GpuStep \/ LoopEnd

Spec == Init /\ [][Next]_vars

----------------------------------------------------------------------------
(* cpu.step() applied to CPU states drawn from bounded sets.  Every drawn  *)
(* state is one a ROM can bring the CPU to: LD rr,d16 and POP AF set the   *)
(* registers, LD SP,d16 the stack pointer, CALL the program counter, and   *)
(* the ROM file fills the memory.                                          *)

MaxSteps == 2

PcSamples == {0, 256, 32766, 65532, 65533, 65535}
SpSamples == {0, 1, 2, 53248, 65534, 65535}
AfSamples == {0, 384, 65296, 21904}      \* flags: none, Z, C, Z and C
OperandSamples == {<<52, 18>>, <<254, 255>>, <<255, 255>>, <<0, 128>>}

\* CALL, RET, JR, JP in all their conditions, and LD rr,d16
ControlOps == {205, 196, 204, 212, 220, 201, 192, 200, 208, 216,
               24, 32, 40, 48, 56, 195, 194, 202, 210, 218, 1, 17, 33, 49}

\* operand bytes lo, hi of the 16-bit immediate loads
LoadOps == {1, 17, 33, 49}
LoadOperands == {0, 1, 52, 128, 255} \X {0, 18, 128, 255}

\* register values BC, DE, HL and accumulator/flag values of the data instructions
RegSamples == {<<4863, 49374, 49408>>, <<255, 65280, 65535>>, <<65280, 255, 0>>,
               <<65535, 0, 255>>, <<3856, 4111, 32783>>}
DataAf == {0, 240, 496, 4095, 4112, 33024, 65296, 65520}

\* accumulator and flag values of the extended instructions
CbAf == {0, 240, 23056, 42255}

\* accumulator and flag values of XOR A
XorAf == {a * 256 + f : a \in {0, 1, 127, 128, 170, 255}, f \in {0, 15, 16, 128, 240, 255}}

\* LD (rr),A; INC r / DEC r on the 8-bit registers and (HL); XOR r; CP r and CP d8
DataOps == {2, 18, 34, 50} \cup {4, 12, 20, 28, 36, 44, 52, 60}
             \cup {5, 13, 21, 29, 37, 45, 53, 61} \cup (168..175) \cup (184..191) \cup {254}

\* <<opcode, pc, sp, operand bytes, AF>>, optionally followed by the values of
\* <<BC, DE, HL>> and the memory byte at the address in HL
Scenarios ==
    ((0..255) \X {256, 65534} \X {53248} \X {<<52, 18>>, <<254, 255>>} \X AfSamples)
    \cup (ControlOps \X PcSamples \X SpSamples \X OperandSamples \X AfSamples)
    \cup (LoadOps \X {256, 65532} \X {53248} \X LoadOperands \X {0})
    \cup (DataOps \X {256} \X {53248} \X {<<52, 18>>, <<15, 0>>} \X DataAf
              \X RegSamples \X {0, 255})
    \cup ({175} \X {256, 65534} \X {53248} \X {<<52, 18>>} \X XorAf)
    \cup ({203} \X {256} \X {53248} \X {<<xx, 18>> : xx \in 0..255} \X CbAf
              \X RegSamples \X {90, 165})
    \cup ({197, 213, 229, 245} \X {256} \X {0, 1, 2, 53248, 65535}
              \X {<<pop, 18>> : pop \in {193, 209, 225, 241}} \X CbAf \X RegSamples \X {0})
    \cup ({3, 19, 35, 51, 11, 27, 43, 59} \X {256} \X {0, 53248, 65535}
              \X {<<52, 18>>} \X CbAf \X RegSamples \X {0})

\* The drawn CPU: the instruction bytes at pc, a RET at the address the
\* operand bytes name, the word 0x5678 on top of the stack.
DrawnMem(op, pc0, sp0, b1, b2, hl, mhl) ==
    MemPut(MemPut(MemPut(
        MemPut(MemPut(MemPut(MemPut(MemNew, b1 + 256 * b2, 201), hl, mhl), sp0, 120),
               U16(sp0 + 1), 86),
        U16(pc0 + 2), b2), U16(pc0 + 1), b1), pc0, op)

DrawnRegisters(af, regs) ==
    put16(put16(put16(put16(RegisterSetNew({<<"A", "F">>, <<"B", "C">>, <<"D", "E">>, <<"H", "L">>}),
                            <<"A", "F">>, af), <<"B", "C">>, regs[1]),
                <<"D", "E">>, regs[2]), <<"H", "L">>, regs[3])

DrawnFrom(s, regs, mhl) ==
    [CpuNew(DrawnMem(s[1], s[2], s[3], s[4][1], s[4][2], regs[3], mhl))
        EXCEPT !.pc = s[2], !.sp = s[3], !.registers = DrawnRegisters(s[5], regs)]

DrawnCpu(s) ==
    IF Len(s) = 7 THEN DrawnFrom(s, s[6], s[7])
    ELSE DrawnFrom(s, <<4863, 49374, 49408>>, 0)

InitCpu ==
    /\ overflow_checks \in BOOLEAN
    /\ \E s \in Scenarios : cpu = DrawnCpu(s)
    /\ gpu = GpuNew
    /\ turn = "cpu"
    /\ pre = <<>>
    /\ gpre = NoGpre
    /\ win = NoWindow
    /\ vrun = NoVRun
    /\ lclk = NoClock
    /\ applied = 0
    /\ call = NoCall

\* cpu.step() on the drawn state, at most MaxSteps times
CpuOnly ==
    /\ applied < MaxSteps
    /\ cpu.fault = "none"
    /\ cpu' = step(cpu)
    /\ pre' = PreNext(pre, cpu)
    /\ applied' = applied + 1
    /\ UNCHANGED <<gpu, turn, overflow_checks, gpre, win, vrun, lclk, call>>

NextCpu == CpuOnly

SpecCpu == InitCpu /\ [][NextCpu]_vars

----------------------------------------------------------------------------
(* The public methods of GBRegisterSet and GBCpu called once on a drawn     *)
(* state: put8 on every alias, set_interrupt_request and interrupt_enable   *)
(* on every index.                                                          *)

Slots == {<<"A", "F">>, <<"B", "C">>, <<"D", "E">>, <<"H", "L">>}
Aliases == {<<"A">>, <<"F">>, <<"B">>, <<"C">>, <<"D">>, <<"E">>, <<"H">>, <<"L">>}

\* the u16 argument of put16
Put16Data == {0, 255, 256, 4660, 43981, 65535}

\* the u16 argument of put8: every byte, and values above 0xFF
Put8Data == (0..255) \cup {256, 511, 4660, 65280, 65535}

\* contents of the request byte 0xFF0F and of the enable byte 0xFFFF
RequestSamples == {0, 1, 16, 85, 128, 170, 255}
EnableSamples == {0, 1, 84, 255}

\* <<AF, <<BC, DE, HL>>, byte at 0xFF0F, byte at 0xFFFF>>
ApiScenarios ==
    (DataAf \X RegSamples \X {0} \X {0})
    \cup ({4112} \X {<<4863, 49374, 49408>>} \X RequestSamples \X EnableSamples)

DrawnApi(s) ==
    [CpuNew(MemPut(MemPut(MemNew, 65295, s[3]), 65535, s[4]))
        EXCEPT !.registers = DrawnRegisters(s[1], s[2])]

InitApi ==
    /\ overflow_checks \in BOOLEAN
    /\ \E s \in ApiScenarios : cpu = DrawnApi(s)
    /\ gpu = GpuNew
    /\ turn = "cpu"
    /\ pre = <<>>
    /\ gpre = NoGpre
    /\ win = NoWindow
    /\ vrun = NoVRun
    /\ lclk = NoClock
    /\ applied = 0
    /\ call = NoCall

\* names that are not keys of the register map; the first is what arg_parse
\* makes of the operand string SP+r8
UnknownNames == {<<"S", "P", "r", "8">>, <<"P", "C">>}

\* registers.put8(&name, data); the search loop never ends on an unknown name
ApiPut8 ==
    /\ call.fn = "none"
    /\ \E name \in Aliases \cup UnknownNames, data \in Put8Data :
          /\ cpu' = IF RegResolves(cpu.registers, name)
                    THEN [cpu EXCEPT !.registers = put8(cpu.registers, name, data)]
                    ELSE Hang(cpu)
          /\ call' = [NoCall EXCEPT !.fn = "put8", !.name = name, !.data = data]
    /\ pre' = PreNext(pre, cpu)
    /\ UNCHANGED <<gpu, turn, overflow_checks, gpre, win, vrun, lclk, applied>>

\* registers.put16(&name, data); the search loop never ends on an unknown name
ApiPut16 ==
    /\ call.fn = "none"
    /\ \E name \in Slots \cup Aliases \cup UnknownNames, data \in Put16Data :
          /\ cpu' = IF RegResolves(cpu.registers, name)
                    THEN [cpu EXCEPT !.registers = put16(cpu.registers, name, data)]
                    ELSE Hang(cpu)
          /\ call' = [NoCall EXCEPT !.fn = "put16", !.name = name, !.data = data]
    /\ pre' = PreNext(pre, cpu)
    /\ UNCHANGED <<gpu, turn, overflow_checks, gpre, win, vrun, lclk, applied>>

\* registers.get16(&name): leaves the CPU alone and returns `value`
ApiGet16 ==
    /\ call.fn = "none"
    /\ \E name \in Slots \cup Aliases \cup UnknownNames :
          call' = [NoCall EXCEPT !.fn = "get16", !.name = name,
                                 !.value = get16(cpu.registers, name)]
    /\ pre' = PreNext(pre, cpu)
    /\ UNCHANGED <<cpu, gpu, turn, overflow_checks, gpre, win, vrun, lclk, applied>>

\* registers.get8(&name): leaves the CPU alone and returns `value`
ApiGet8 ==
    /\ call.fn = "none"
    /\ \E name \in Slots \cup Aliases \cup UnknownNames :
          call' = [NoCall EXCEPT !.fn = "get8", !.name = name,
                                 !.value = get8(cpu.registers, name)]
    /\ pre' = PreNext(pre, cpu)
    /\ UNCHANGED <<cpu, gpu, turn, overflow_checks, gpre, win, vrun, lclk, applied>>

\* cpu.set_interrupt_request(ipos, request)
ApiSetInterruptRequest ==
    /\ call.fn = "none"
    /\ \E ipos \in 0..7, request \in BOOLEAN :
          /\ cpu' = set_interrupt_request(cpu, ipos, request).x
          /\ call' = [NoCall EXCEPT !.fn = "set_interrupt_request", !.ipos = ipos,
                                     !.flag = request,
                                     !.ret = set_interrupt_request(cpu, ipos, request).prev]
    /\ pre' = PreNext(pre, cpu)
    /\ UNCHANGED <<gpu, turn, overflow_checks, gpre, win, vrun, lclk, applied>>

\* cpu.interrupt_enable(ipos, enable)
ApiInterruptEnable ==
    /\ call.fn = "none"
    /\ \E ipos \in 0..7, enable \in BOOLEAN :
          /\ cpu' = interrupt_enable(cpu, ipos, enable).x
          /\ call' = [NoCall EXCEPT !.fn = "interrupt_enable", !.ipos = ipos,
                                     !.flag = enable,
                                     !.ret = interrupt_enable(cpu, ipos, enable).prev]
    /\ pre' = PreNext(pre, cpu)
    /\ UNCHANGED <<gpu, turn, overflow_checks, gpre, win, vrun, lclk, applied>>

\* cpu.get_mem_mut().put(pos, byte): stores the byte; a position outside
\* the 64KB vector is an index out of bounds, which panics in every build
ApiMemPut ==
    /\ call.fn = "none"
    /\ \E pos \in {0, 49152, 65295, 65348, 65535, 65536}, byte \in {0, 7, 31, 255} :
          /\ cpu' = IF pos < 65536
                    THEN [cpu EXCEPT !.mem = MemPut(cpu.mem, pos, byte)]
                    ELSE [cpu EXCEPT !.fault = "panic"]
          /\ call' = [NoCall EXCEPT !.fn = "mem_put", !.data = pos, !.value = byte]
    /\ pre' = PreNext(pre, cpu)
    /\ UNCHANGED <<gpu, turn, overflow_checks, gpre, win, vrun, lclk, applied>>

NextApi ==
    \/ ApiMemPut
    \/ ApiPut8
    \/ ApiPut16
    \/ ApiGet16
    \/ ApiGet8
    \/ ApiSetInterruptRequest
    \/ ApiInterruptEnable

SpecApi == InitApi /\ [][NextApi]_vars

----------------------------------------------------------------------------
(* Properties of the timing automaton and of the driver, checked under Spec *)

Edges == {<<"OAM", "VRAM">>, <<"VRAM", "HBLANK">>, <<"HBLANK", "OAM">>,
          <<"HBLANK", "VBLANK">>, <<"VBLANK", "OAM">>}

\* the latest gpu.step() reached the threshold of the phase it started in
Crossed == gpre.gpu.cycles + gpre.cpu.last_op_cycles >= Threshold(gpre.gpu.mode)

\* bit `ipos` of the interrupt request byte 0xFF0F / enable byte 0xFFFF, counted from the LSB
RequestBit(x, ipos) == (MemGet(x.mem, 65295) \div Pow2(ipos)) % 2 = 1
EnableBit(x, ipos)  == (MemGet(x.mem, 65535) \div Pow2(ipos)) % 2 = 1

\* C1: every gpu.step() keeps the phase or follows one of the five edges;
\* HBLANK->VBLANK is taken exactly when HBLANK ends with the incremented line
\* equal to 143, VBLANK->OAM exactly when a VBLANK period ends with the
\* incremented line above 153, and then the line is reset to 0.
C1_PhaseEdges ==
    gpre.acted =>
        LET b == gpre.gpu
            line == b.drawing_line + 1
        IN  /\ gpu.mode = b.mode \/ <<b.mode, gpu.mode>> \in Edges
            /\ (b.mode = "HBLANK" /\ gpu.mode = "VBLANK")
                   <=> (b.mode = "HBLANK" /\ Crossed /\ line = 143)
            /\ (b.mode = "VBLANK" /\ gpu.mode = "OAM")
                   <=> (b.mode = "VBLANK" /\ Crossed /\ line > 153)
            /\ (b.mode = "VBLANK" /\ gpu.mode = "OAM") => gpu.drawing_line = 0

C1_Witness ==
    /\ vrun.state = "left"
    /\ gpre.gpu.mode = "VBLANK" /\ gpre.gpu.drawing_line = 153
    /\ gpu.mode = "OAM" /\ gpu.drawing_line = 0

\* C2: at every step boundary the drawing line is in 0..153.
C2_LineRange == gpu.drawing_line \in 0..153

C2_Witness ==
    /\ gpre.acted /\ gpre.gpu.drawing_line = 152 /\ gpu.drawing_line = 153

\* C3 as stated: 456 cycles after a boundary in OAM with counter 0 at a line
\* L < 143, the line is L+1 and the phases went OAM, VRAM, HBLANK.
C3_Original ==
    (win.open /\ win.sum = 456 /\ win.start_line < 143) =>
        /\ gpu.drawing_line = win.start_line + 1
        /\ Len(win.phases) >= 3
        /\ SubSeq(win.phases, 1, 3) = <<"OAM", "VRAM", "HBLANK">>

\* C3 amended: the same, for cost sequences whose running sum meets every
\* phase threshold exactly (80, 252, 456), as when every cost is 4.
C3_ExactLine ==
    (win.open /\ win.exact /\ win.sum = 456 /\ win.start_line < 143) =>
        /\ gpu.drawing_line = win.start_line + 1
        /\ Len(win.phases) >= 3
        /\ SubSeq(win.phases, 1, 3) = <<"OAM", "VRAM", "HBLANK">>

C3_Witness ==
    /\ win.open /\ win.exact /\ win.sum = 456 /\ win.start_line = 141
    /\ gpu.drawing_line = 142
    /\ win.phases = <<"OAM", "VRAM", "HBLANK", "OAM">>

\* C4: on the gpu.step() that takes the line from 143 to 144 the vblank
\* request bit is set afterwards iff the vblank enable bit is set (a request
\* that was already pending stays pending).
C4_RequestAt144 ==
    (gpre.acted /\ turn = "cpu" /\ gpre.gpu.drawing_line = 143 /\ gpu.drawing_line = 144) =>
        (RequestBit(cpu, 0) <=> (EnableBit(gpre.cpu, 0) \/ RequestBit(gpre.cpu, 0)))

\* C5: VBLANK lasts exactly 10 line periods: it is left after the 10th with
\* the line back at 0 and the phase OAM, and never holds for an 11th.
C5_TenVblankPeriods ==
    /\ vrun.state = "in" => vrun.periods < 10
    /\ (vrun.state = "left" /\ gpre.gpu.mode = "VBLANK" /\ gpu.mode # "VBLANK") =>
           (vrun.periods = 10 /\ gpu.mode = "OAM" /\ gpu.drawing_line = 0)

\* the instruction-table cost of the instruction at pc: key 0xCBxx after the escape byte
TableCost(x) ==
    LET b == MemGet(x.mem, x.pc)
    IN  IF b = 203 THEN instruction_cycle_map(51968 + MemGet(x.mem, U16(x.pc + 1)))
        ELSE instruction_cycle_map(b)

\* C6: CPU steps and timing steps alternate, and every gpu.step() consumes
\* the table cost of the instruction run by the cpu.step() just before it.
C6_ConsumesLastCost ==
    /\ turn \in {"cpu", "gpu", "ended"}
    /\ (turn = "gpu" /\ cpu.fault = "none") => pre # <<>>
    /\ (turn = "cpu" /\ gpre.acted) =>
           /\ pre # <<>>
           /\ gpre.cpu.last_op_cycles = TableCost(pre[1])

----------------------------------------------------------------------------
(* Properties of one cpu.step(), checked under SpecCpu                      *)

\* the CPU before the latest step, and the table entry of the opcode it ran
Before == pre[1]
Entry(x) == BaseTable[MemGet(x.mem, x.pc) + 1]

\* operand strings that stand for immediate bytes after the opcode: the
\* arms of arg_parse whose data_parse arm moves pc.  "SP+r8" matches none
\* of them (it falls through to the register arm), so it consumes no byte.
ImmediateBytesOf(arg) ==
    LET a == Without(Without(arg, "("), ")")
    IN  IF a \in {<<"d", "1", "6">>, <<"a", "1", "6">>} THEN 2
        ELSE IF a \in {<<"d", "8">>, <<"a", "8">>, <<"r", "8">>} THEN 1
        ELSE 0

RECURSIVE ImmediateBytes(_)
ImmediateBytes(args) ==
    IF args = <<>> THEN 0 ELSE ImmediateBytesOf(args[1]) + ImmediateBytes(Tail(args))

ConditionCodes == {<<"N", "Z">>, <<"Z">>, <<"N", "C">>, <<"C">>}

\* JR/JP/CALL with two operands and RET with one carry a condition code
IsConditional(e) ==
    \/ e.op \in {"jr", "jp", "call"} /\ Len(e.args) = 2 /\ e.args[1] \in ConditionCodes
    \/ e.op = "ret" /\ Len(e.args) = 1 /\ e.args[1] \in ConditionCodes

\* the condition of a conditional transfer is false under the flags of x
ConditionFalse(x) == IsConditional(Entry(x)) /\ ~Condition(Flags(x), Entry(x).args[1])

\* a control transfer that is taken: unconditional, or its condition holds
TakenTransfer(x) ==
    /\ Entry(x).op \in {"jr", "jp", "call", "ret", "reti", "rst"}
    /\ ~ConditionFalse(x)

\* C7: a step on a base opcode that is not a taken control transfer (nor the
\* 0xCB escape, nor an opcode without a table instruction) leaves pc at the
\* old pc + 1 + the number of immediate operand bytes, modulo 2^16.
C7_PcAdvances ==
    (Len(pre) >= 1 /\ ~TakenTransfer(Before) /\ Entry(Before).op \notin {"prefix", "none"}) =>
        /\ cpu.fault = "none"
        /\ cpu.pc = U16(Before.pc + 1 + ImmediateBytes(Entry(Before).args))

\* C8: CALL a16 with sp >= 2 completes, and the RET at its target that
\* follows restores pc to the CALL address + 3 (modulo 2^16) and sp to its
\* value before the CALL.
C8_CallRetRoundTrip ==
    /\ (Len(pre) >= 1 /\ MemGet(Before.mem, Before.pc) = 205 /\ Before.sp >= 2) =>
           cpu.fault = "none"
    /\ (Len(pre) = 2 /\ MemGet(pre[2].mem, pre[2].pc) = 205 /\ pre[2].sp >= 2
           /\ MemGet(Before.mem, Before.pc) = 201) =>
           /\ cpu.fault = "none"
           /\ cpu.pc = U16(pre[2].pc + 3)
           /\ cpu.sp = pre[2].sp

\* the sequential length of the conditional transfers: JR 2, JP 3, CALL 3, RET 1
TransferLength(e) ==
    CASE e.op = "jr" -> 2 [] e.op = "jp" -> 3 [] e.op = "call" -> 3 [] e.op = "ret" -> 1

\* C9: a conditional JR/JP/CALL/RET whose condition is false only moves pc
\* to the next instruction; sp, the registers and the memory stay as they were.
C9_FalseConditionOnlyAdvances ==
    (Len(pre) >= 1 /\ ConditionFalse(Before)) =>
        /\ cpu.fault = "none"
        /\ cpu.pc = U16(Before.pc + TransferLength(Entry(Before)))
        /\ cpu.sp = Before.sp
        /\ cpu.registers = Before.registers
        /\ cpu.mem = Before.mem

\* the register LD rr,d16 loads: BC, DE, HL or SP
LoadTarget(x, op) ==
    CASE op = 1  -> get16(x.registers, <<"B", "C">>)
      [] op = 17 -> get16(x.registers, <<"D", "E">>)
      [] op = 33 -> get16(x.registers, <<"H", "L">>)
      [] op = 49 -> x.sp

\* C10: LD BC/DE/HL/SP,d16 lying within the address space (pc + 3 <= 0xFFFF)
\* leaves the target equal to lo | (hi << 8), lo and hi being the two bytes
\* after the opcode, and pc advanced by exactly 3.
C10_LoadImmediate16 ==
    (Len(pre) >= 1 /\ MemGet(Before.mem, Before.pc) \in LoadOps /\ Before.pc + 3 <= 65535) =>
        LET lo == MemGet(Before.mem, Before.pc + 1)
            hi == MemGet(Before.mem, Before.pc + 2)
        IN  /\ cpu.fault = "none"
            /\ LoadTarget(cpu, MemGet(Before.mem, Before.pc)) = BitOr(lo, hi * 256)
            /\ cpu.pc = Before.pc + 3

C10_Witness ==
    /\ Len(pre) = 1 /\ overflow_checks
    /\ Before.pc = 65532 /\ MemGet(Before.mem, 65532) = 33
    /\ MemGet(Before.mem, 65533) = 52 /\ MemGet(Before.mem, 65534) = 128
    /\ get16(Before.registers, <<"H", "L">>) = 49408
    /\ get16(cpu.registers, <<"H", "L">>) = 32820
    /\ cpu.pc = 65535 /\ cpu.fault = "none"

\* the opcode byte the latest step fetched
Fetched == MemGet(Before.mem, Before.pc)

\* register values before and after the latest step
Was(name) == get16(Before.registers, name)
Now(name) == get16(cpu.registers, name)

\* the register pair that addresses the store of LD (rr),A
StorePair(op) ==
    CASE op = 2 -> <<"B", "C">> [] op = 18 -> <<"D", "E">> [] OTHER -> <<"H", "L">>

\* C11: LD (BC),A, LD (DE),A, LD (HL+),A and LD (HL-),A (not on the last
\* address) leave the old A in the memory byte the pair addressed before the
\* step, pc advanced by 1, BC and DE as they were, and HL as it was, one
\* more (HL+) or one less (HL-), modulo 2^16.
C11_StoreThroughPair ==
    (Len(pre) >= 1 /\ Fetched \in {2, 18, 34, 50} /\ Before.pc + 1 <= 65535) =>
        /\ cpu.fault = "none"
        /\ MemGet(cpu.mem, Was(StorePair(Fetched))) = Was(<<"A">>)
        /\ cpu.pc = Before.pc + 1
        /\ Now(<<"B", "C">>) = Was(<<"B", "C">>)
        /\ Now(<<"D", "E">>) = Was(<<"D", "E">>)
        /\ Now(<<"H", "L">>) = CASE Fetched = 34 -> U16(Was(<<"H", "L">>) + 1)
                                  [] Fetched = 50 -> U16(Was(<<"H", "L">>) + 65535)
                                  [] OTHER        -> Was(<<"H", "L">>)

C11_Witness ==
    /\ Len(pre) = 1 /\ Fetched = 34 /\ Before.pc = 256
    /\ Was(<<"H", "L">>) = 65535 /\ Was(<<"A">>) = 129 /\ MemGet(Before.mem, 65535) = 0
    /\ MemGet(cpu.mem, 65535) = 129 /\ Now(<<"H", "L">>) = 0 /\ cpu.pc = 257

----------------------------------------------------------------------------
(* Properties of the public methods, checked under SpecApi                  *)

HighAliases == {<<"A">>, <<"B">>, <<"D">>, <<"H">>}

\* the slot an alias is half of
SlotOf(alias) == CHOOSE slot \in Slots : alias = <<slot[1]>> \/ alias = <<slot[2]>>

\* the halves of a 16-bit value
HighHalf(w) == w \div 256
LowHalf(w)  == w % 256

\* C12: put8 of a byte v on a high alias leaves the low alias of the slot
\* reading as before and the slot reading (v << 8) | low; on a low alias it
\* leaves the high alias as before and the slot reading (high << 8) | v; the
\* other three slots are unchanged.
C12_HalfIndependence ==
    (call.fn = "put8" /\ call.name \in Aliases /\ call.data <= 255) =>
        LET slot == SlotOf(call.name)
            old  == Was(slot)
        IN  /\ call.name \in HighAliases =>
                  /\ get8(cpu.registers, <<slot[2]>>) = LowHalf(old)
                  /\ Now(slot) = call.data * 256 + LowHalf(old)
            /\ call.name \notin HighAliases =>
                  /\ get16(cpu.registers, <<slot[1]>>) = HighHalf(old)
                  /\ Now(slot) = HighHalf(old) * 256 + call.data
            /\ \A other \in Slots \ {slot} : Now(other) = Was(other)

C12_Witness ==
    /\ call.fn = "put8" /\ call.name = <<"B">> /\ call.data = 171
    /\ Was(<<"B", "C">>) = 4863 /\ Now(<<"B", "C">>) = 44031
    /\ get8(cpu.registers, <<"C">>) = 255

\* C13: put8 of any 16-bit value on an alias leaves the low 8 bits of the
\* value in that half and the other half of the slot as it was.
C13_AliasWriteMasks ==
    (call.fn = "put8" /\ call.name \in Aliases) =>
        LET slot == SlotOf(call.name)
            old  == Was(slot)
        IN  Now(slot) = IF call.name \in HighAliases
                        THEN (call.data % 256) * 256 + LowHalf(old)
                        ELSE HighHalf(old) * 256 + (call.data % 256)

----------------------------------------------------------------------------
(* Properties of the data instructions, checked under SpecCpu               *)

\* the flags Zero, Subtract, HalfCarry, Carry: bits 7, 6, 5, 4 of F
FlagZ(x) == (get8(x.registers, <<"F">>) \div 128) % 2 = 1
FlagN(x) == (get8(x.registers, <<"F">>) \div 64) % 2 = 1
FlagH(x) == (get8(x.registers, <<"F">>) \div 32) % 2 = 1
FlagC(x) == (get8(x.registers, <<"F">>) \div 16) % 2 = 1

\* the latest step ran INC r / DEC r on the 8-bit register r
Ran8(op, r) ==
    /\ Len(pre) >= 1
    /\ Entry(Before).op = op
    /\ Entry(Before).args = <<r>>
    /\ r \in Aliases \ {<<"F">>}

\* C14: INC r on r = 0xFF leaves r = 0x00, Zero and HalfCarry set, Subtract
\* clear; DEC r on r = 0x00 leaves r = 0xFF, Zero clear, HalfCarry and
\* Subtract set; Carry is as it was.
C14_IncDecWrap ==
    \A r \in Aliases \ {<<"F">>} :
        /\ (Ran8("inc", r) /\ get8(Before.registers, r) = 255) =>
               /\ cpu.fault = "none"
               /\ get8(cpu.registers, r) = 0
               /\ FlagZ(cpu) /\ FlagH(cpu) /\ ~FlagN(cpu)
               /\ FlagC(cpu) = FlagC(Before)
        /\ (Ran8("dec", r) /\ get8(Before.registers, r) = 0) =>
               /\ cpu.fault = "none"
               /\ get8(cpu.registers, r) = 255
               /\ ~FlagZ(cpu) /\ FlagH(cpu) /\ FlagN(cpu)
               /\ FlagC(cpu) = FlagC(Before)

\* C15: XOR A (not on the last address) leaves A = 0 and F = 0x80, pc
\* advanced by 1, and BC, DE, HL, sp and the memory as they were.
C15_XorA ==
    (Len(pre) >= 1 /\ Fetched = 175 /\ Before.pc + 1 <= 65535) =>
        /\ cpu.fault = "none"
        /\ Now(<<"A", "F">>) = 128
        /\ cpu.pc = Before.pc + 1
        /\ \A slot \in Slots \ {<<"A", "F">>} : Now(slot) = Was(slot)
        /\ cpu.sp = Before.sp
        /\ cpu.mem = Before.mem

C15_Witness ==
    /\ Len(pre) = 1 /\ Fetched = 175 /\ Before.pc = 65534
    /\ Was(<<"A", "F">>) = 65535
    /\ Now(<<"A", "F">>) = 128 /\ cpu.pc = 65535

\* the extended-table entry of the byte after the escape byte 0xCB
Second == MemGet(Before.mem, U16(Before.pc + 1))
CbEntry == CbTable[Second + 1]

\* the value an operand string of the extended table names: a register, or
\* the memory byte at the address in HL
OperandValue(x, r) ==
    IF r = <<"(", "H", "L", ")">>
    THEN MemGet(x.mem, get16(x.registers, <<"H", "L">>))
    ELSE get8(x.registers, r)

\* bit b of a byte, counted from the least significant bit
BitOf(v, b) == (v \div Pow2(b)) % 2

\* C16: after 0xCB and BIT b,r (both bytes below the last address) Zero is
\* set iff bit b of the operand is 0, HalfCarry is set, Subtract is clear,
\* Carry is as it was, and the operand is unchanged.
C16_BitTest ==
    (Len(pre) >= 1 /\ Fetched = 203 /\ CbEntry.op = "bit" /\ Before.pc + 2 <= 65535) =>
        LET b == ParseDigit(CbEntry.args[1])
            r == CbEntry.args[2]
        IN  /\ cpu.fault = "none"
            /\ FlagZ(cpu) <=> BitOf(OperandValue(Before, r), b) = 0
            /\ FlagH(cpu) /\ ~FlagN(cpu)
            /\ FlagC(cpu) = FlagC(Before)
            /\ OperandValue(cpu, r) = OperandValue(Before, r)

C16_Witness ==
    /\ Len(pre) = 1 /\ Fetched = 203 /\ Second = 124
    /\ Was(<<"H", "L">>) = 32783 /\ Was(<<"A", "F">>) = 240
    /\ Now(<<"A", "F">>) = 48 /\ Now(<<"H", "L">>) = 32783

\* C17: CP n (opcode 0xFE, both bytes inside the address space) leaves A as
\* it was, sets Zero iff a = n, sets Subtract, sets HalfCarry iff
\* (a & 0x0F) < (n & 0x0F), and sets Carry iff a < n.
C17_CompareImmediate ==
    (Len(pre) >= 1 /\ Fetched = 254 /\ Before.pc + 2 <= 65535) =>
        LET a == get8(Before.registers, <<"A">>)
            n == Second
        IN  /\ cpu.fault = "none"
            /\ get8(cpu.registers, <<"A">>) = a
            /\ FlagZ(cpu) <=> a = n
            /\ FlagN(cpu)
            /\ FlagH(cpu) <=> (a % 16) < (n % 16)
            /\ FlagC(cpu) <=> a < n

\* some interrupt is both enabled (0xFFFF) and requested (0xFF0F)
InterruptPending(x) ==
    \E i \in 0..7 : is_interrupt_enabled(x, i)
                     /\ BitVec_from_bytes(MemGet(x.mem, 65295))[7 - i]

\* C18: a step that fetched STOP (0x10) or HALT (0x76) leaves stop_flag set,
\* and the step after it, with no interrupt both enabled and requested,
\* fetches no instruction: it changes nothing of the CPU.
C18_StopHalts ==
    /\ (Len(pre) >= 1 /\ Fetched \in {16, 118}) => cpu.stop_flag
    /\ (Len(pre) = 2 /\ MemGet(pre[2].mem, pre[2].pc) \in {16, 118}
           /\ ~InterruptPending(Before)) => cpu = Before

\* C19: a step that fetched the escape byte 0xCB (both bytes inside the
\* address space) advances pc by 2 and records the cost the table holds
\* under the key 0xCBxx of the extended instruction.
C19_ExtendedDispatch ==
    (Len(pre) >= 1 /\ Fetched = 203 /\ Before.pc + 2 <= 65535) =>
        /\ cpu.fault = "none"
        /\ cpu.pc = Before.pc + 2
        /\ cpu.last_op_cycles = instruction_cycle_map(51968 + Second)

\* a byte with bit i (from the least significant end) replaced by a flag
WithBit(v, i, flag) == v - BitOf(v, i) * Pow2(i) + (IF flag THEN Pow2(i) ELSE 0)

\* every byte of the memory other than the one at pos is as before the call
OnlyByteChanged(pos) ==
    \A a \in (DOMAIN cpu.mem \cup DOMAIN Before.mem) \ {pos} :
        MemGet(cpu.mem, a) = MemGet(Before.mem, a)

\* C20: set_interrupt_request(i, value) returns the previous bit i of the
\* byte at 0xFF0F, leaves that bit equal to value and every other bit and
\* memory byte unchanged; interrupt_enable and is_interrupt_enabled use the
\* same bit position i in the byte at 0xFFFF.
C20_InterruptBits ==
    /\ call.fn = "set_interrupt_request" =>
           LET old == MemGet(Before.mem, 65295)
           IN  /\ call.ret = (BitOf(old, call.ipos) = 1)
               /\ MemGet(cpu.mem, 65295) = WithBit(old, call.ipos, call.flag)
               /\ OnlyByteChanged(65295)
    /\ call.fn = "interrupt_enable" =>
           LET old == MemGet(Before.mem, 65535)
           IN  /\ call.ret = (BitOf(old, call.ipos) = 1)
               /\ call.ret = is_interrupt_enabled(Before, call.ipos)
               /\ MemGet(cpu.mem, 65535) = WithBit(old, call.ipos, call.flag)
               /\ is_interrupt_enabled(cpu, call.ipos) = call.flag
               /\ OnlyByteChanged(65535)

C20_Witness ==
    /\ call.fn = "set_interrupt_request" /\ call.ipos = 4 /\ call.flag /\ ~call.ret
    /\ MemGet(Before.mem, 65295) = 170 /\ MemGet(cpu.mem, 65295) = 186
    /\ MemGet(cpu.mem, 65535) = 84

----------------------------------------------------------------------------
(* Properties of the register set's named access, checked under SpecApi     *)

\* C21: a get16, get8, put8 or put16 on a name outside the four slots and
\* their eight aliases ends in a fatal error.
C21_UnknownNameFatal ==
    (call.fn \in {"get16", "get8", "put8", "put16"}
        /\ call.name \notin Slots \cup Aliases) => cpu.fault = "panic"

----------------------------------------------------------------------------
(* Properties of the dispatch, checked under SpecCpu                        *)

\* C22: both dispatch tables have an entry for each of the 256 byte values
\* and no step ends in the unknown-opcode abort, whatever byte is at pc and
\* whatever byte follows the escape byte 0xCB.
C22_DispatchTotal ==
    /\ Len(BaseTable) = 256 /\ Len(CbTable) = 256
    /\ cpu.fault # "unknown_op"

C22_Witness ==
    /\ Len(pre) = 1 /\ cpu.fault = "none"
    /\ Fetched = 203 /\ Second = 255 /\ cpu.pc = Before.pc + 1

----------------------------------------------------------------------------
(* Properties of the flags register, checked under Spec                     *)

\* C23: in every state reached from construction the low four bits of the
\* flags register F are 0.
C23_FlagLowBitsZero == get8(cpu.registers, <<"F">>) % 16 = 0

----------------------------------------------------------------------------
(* Further properties of the timing automaton, checked under Spec           *)

\* C24: the automaton is in the VBLANK phase iff the drawing line is in
\* 144..153, so lines 0..143 are only seen in OAM, VRAM and HBLANK.
C24_VblankIffLine ==
    (gpu.mode = "VBLANK") <=> (gpu.drawing_line \in 144..153)

\* C25: before its first step the automaton is in OAM with counter 0 and
\* line 0, the state a step that leaves VBLANK puts it in.
C25_ResetIsOam ==
    LET AfterWrap == [mode |-> "OAM", cycles |-> 0, drawing_line |-> 0]
    IN  /\ ~gpre.acted => gpu = AfterWrap
        /\ (gpre.acted /\ gpre.gpu.mode = "VBLANK" /\ gpu.mode # "VBLANK")
               => gpu = AfterWrap

\* C26: while every timing step consumes 4 cycles, two successive changes of
\* the drawing line are exactly 456 cycles apart, in the visible lines and in
\* vertical blank, and two successive returns of the line to 0 are exactly
\* 154 * 456 = 70224 cycles apart.
C26_LineAndFramePeriod ==
    lclk.all4 =>
        /\ lclk.gap \in {0, 456}
        /\ lclk.changed => lclk.since < 456
        /\ lclk.frame \in {0, 154 * 456}
        /\ lclk.wrapped => lclk.since0 < 154 * 456

C26_Witness ==
    /\ lclk.all4 /\ lclk.frame = 70224 /\ lclk.gap = 456
    /\ gpu.mode = "VBLANK" /\ gpu.drawing_line = 150

\* C27: a gpu.step() leaves pc, sp, the registers, the stop flag, the recorded
\* cost and every memory byte as they were, except the bytes at the scanline
\* register 0xFF44 and at the interrupt-request address 0xFF0F.
C27_TimingStepFrame ==
    (gpre.acted /\ turn = "cpu") =>
        /\ cpu.pc = gpre.cpu.pc /\ cpu.sp = gpre.cpu.sp
        /\ cpu.registers = gpre.cpu.registers
        /\ cpu.stop_flag = gpre.cpu.stop_flag
        /\ cpu.last_op_cycles = gpre.cpu.last_op_cycles
        /\ \A a \in (DOMAIN cpu.mem \cup DOMAIN gpre.cpu.mem) \ {65348, 65295} :
               MemGet(cpu.mem, a) = MemGet(gpre.cpu.mem, a)

C27_Witness ==
    /\ gpre.acted /\ turn = "cpu"
    /\ gpre.gpu.drawing_line = 142 /\ gpu.drawing_line = 143
    /\ MemGet(gpre.cpu.mem, 65348) = 142 /\ MemGet(cpu.mem, 65348) = 143
    /\ ~RequestBit(gpre.cpu, 0) /\ RequestBit(cpu, 0)
    /\ cpu.pc = gpre.cpu.pc

----------------------------------------------------------------------------
(* Properties of the stack instructions, checked under SpecCpu              *)

\* C28: PUSH rr with sp >= 2 (the instruction inside the address space)
\* stores the high byte of rr at sp-1 and the low byte at sp-2 and leaves sp
\* decreased by 2; a POP rr' that follows leaves the pushed value in rr' and
\* sp as it was before the PUSH.
C28_PushPopRoundTrip ==
    /\ (Len(pre) >= 1 /\ Entry(Before).op = "push" /\ Before.sp >= 2
           /\ Before.pc + 1 <= 65535) =>
           LET value == Was(Entry(Before).args[1])
           IN  /\ cpu.fault = "none"
               /\ MemGet(cpu.mem, Before.sp - 1) = value \div 256
               /\ MemGet(cpu.mem, Before.sp - 2) = value % 256
               /\ cpu.sp = Before.sp - 2
    /\ (Len(pre) = 2 /\ Entry(pre[2]).op = "push" /\ pre[2].sp >= 2
           /\ Entry(Before).op = "pop" /\ Before.pc + 1 <= 65535) =>
           /\ cpu.fault = "none"
           /\ Now(Entry(Before).args[1])
                  = get16(pre[2].registers, Entry(pre[2]).args[1])
           /\ cpu.sp = pre[2].sp

C28_Witness ==
    /\ Len(pre) = 2 /\ MemGet(pre[2].mem, pre[2].pc) = 197 /\ Fetched = 241
    /\ get16(pre[2].registers, <<"B", "C">>) = 4863
    /\ get16(pre[2].registers, <<"A", "F">>) = 240
    /\ pre[2].sp = 53248 /\ Before.sp = 53246 /\ cpu.sp = 53248
    /\ MemGet(cpu.mem, 53247) = 18 /\ MemGet(cpu.mem, 53246) = 255
    /\ Now(<<"A", "F">>) = 4863

\* C29: a taken JR at address p with offset byte o does not abort and leaves
\* pc = (p + 2 + s) mod 2^16, s being o read as a signed byte.
C29_RelativeJump ==
    (Len(pre) >= 1 /\ Entry(Before).op = "jr" /\ TakenTransfer(Before)) =>
        /\ cpu.fault = "none"
        /\ cpu.pc = (Before.pc + 2 + AsI8(Second) + 65536) % 65536

----------------------------------------------------------------------------
(* Properties of the register reads, checked under SpecApi                  *)

\* C30: a read of a single-letter alias returns the aliased half of its slot,
\* a value in 0..255: slot & 0xFF for F, C, E, L and slot >> 8 for A, B, D, H;
\* a read of a 16-bit slot name returns the full slot value.
C30_ReadReturnsHalf ==
    /\ (call.fn \in {"get16", "get8"} /\ call.name \in Aliases) =>
           LET slot == get16(cpu.registers, SlotOf(call.name))
           IN  /\ call.value \in 0..255
               /\ call.value = IF call.name \in HighAliases
                                THEN HighHalf(slot) ELSE LowHalf(slot)
    /\ (call.fn = "get16" /\ call.name \in Slots) =>
           call.value = cpu.registers[call.name].data

----------------------------------------------------------------------------
(* Properties of the timing automaton's writes, checked under Spec          *)

\* C31: a gpu.step() changes the byte at 0xFF0F only when it ends HBLANK with
\* the incremented line equal to 143: then it sets request bit 0 iff enable
\* bit 0 of the byte at 0xFFFF is set, and leaves the other bits; every other
\* gpu.step() leaves the byte as it was, so no request bit is ever cleared.
C31_RequestOnlyOnEntry ==
    (gpre.acted /\ turn = "cpu") =>
        LET old    == MemGet(gpre.cpu.mem, 65295)
            enters == /\ gpre.gpu.mode = "HBLANK"
                      /\ gpre.gpu.cycles + gpre.cpu.last_op_cycles >= 204
                      /\ gpre.gpu.drawing_line + 1 = 143
        IN  /\ enters => gpu.mode = "VBLANK"
            /\ MemGet(cpu.mem, 65295) =
                   IF enters /\ EnableBit(gpre.cpu, 0) THEN WithBit(old, 0, TRUE) ELSE old

C31_Witness ==
    /\ gpre.acted /\ turn = "cpu"
    /\ gpre.gpu.mode = "HBLANK" /\ gpu.mode = "VBLANK" /\ gpu.drawing_line = 143
    /\ EnableBit(gpre.cpu, 0)
    /\ MemGet(gpre.cpu.mem, 65295) = 0 /\ MemGet(cpu.mem, 65295) = 1

----------------------------------------------------------------------------
(* Further properties of one cpu.step(), checked under SpecCpu              *)

\* C32: a taken CALL at address p with target t and stack pointer s does not
\* abort and leaves the high byte of p+3 at s-1, its low byte at s-2,
\* sp = s-2 and pc = t, all modulo 2^16.
C32_CallPushesReturn ==
    (Len(pre) >= 1 /\ Entry(Before).op = "call" /\ TakenTransfer(Before)) =>
        LET ret == U16(Before.pc + 3)
            t   == Second + 256 * MemGet(Before.mem, U16(Before.pc + 2))
        IN  /\ cpu.fault = "none"
            /\ MemGet(cpu.mem, U16(Before.sp + 65535)) = ret \div 256
            /\ MemGet(cpu.mem, U16(Before.sp + 65534)) = ret % 256
            /\ cpu.sp = U16(Before.sp + 65534)
            /\ cpu.pc = t

\* C33: an 8-bit DEC r on the value x sets HalfCarry iff (x & 0xF) = 0, sets
\* Subtract, sets Zero iff x = 1, and leaves Carry as it was.
C33_DecHalfCarry ==
    \A r \in Aliases \ {<<"F">>} :
        Ran8("dec", r) =>
            LET x == get8(Before.registers, r)
            IN  /\ cpu.fault = "none"
                /\ FlagH(cpu) <=> (x % 16 = 0)
                /\ FlagN(cpu)
                /\ FlagZ(cpu) <=> (x = 1)
                /\ FlagC(cpu) = FlagC(Before)

\* C34: INC/DEC of BC, DE, HL or SP (the instruction inside the address
\* space) does not abort, changes the target by +1/-1 modulo 2^16, leaves F
\* as it was and advances pc by 1.
C34_WideIncDec ==
    (Len(pre) >= 1 /\ Entry(Before).op \in {"inc", "dec"}
        /\ Entry(Before).args[1] \in (Slots \ {<<"A", "F">>}) \cup {<<"S", "P">>}
        /\ Before.pc + 1 <= 65535) =>
        LET rr     == Entry(Before).args[1]
            delta  == IF Entry(Before).op = "inc" THEN 1 ELSE 65535
            before == IF rr = <<"S", "P">> THEN Before.sp ELSE Was(rr)
            after  == IF rr = <<"S", "P">> THEN cpu.sp ELSE Now(rr)
        IN  /\ cpu.fault = "none"
            /\ after = U16(before + delta)
            /\ get8(cpu.registers, <<"F">>) = get8(Before.registers, <<"F">>)
            /\ cpu.pc = Before.pc + 1

\* C35: INC (HL) (0x34) and DEC (HL) (0x35) write (m +/- 1) mod 256 to the
\* memory byte m at HL, leave HL as it was, and set the flags like the
\* register forms: Zero iff the result is 0, Subtract clear for INC and set
\* for DEC, HalfCarry from the low nibble, Carry unchanged.
C35_IncDecAtHL ==
    (Len(pre) >= 1 /\ Fetched \in {52, 53} /\ Before.pc + 1 <= 65535) =>
        LET hl     == Was(<<"H", "L">>)
            m      == MemGet(Before.mem, hl)
            inc    == Fetched = 52
            result == IF inc THEN (m + 1) % 256 ELSE (m + 255) % 256
        IN  /\ cpu.fault = "none"
            /\ MemGet(cpu.mem, hl) = result
            /\ Now(<<"H", "L">>) = hl
            /\ FlagZ(cpu) <=> (result = 0)
            /\ FlagN(cpu) <=> ~inc
            /\ FlagH(cpu) <=> (IF inc THEN m % 16 = 15 ELSE m % 16 = 0)
            /\ FlagC(cpu) = FlagC(Before)

\* C36: RLA (0x17) leaves Zero, Subtract and HalfCarry clear and Carry equal
\* to bit 7 of the accumulator it rotated; the extended RL r (0xCB 0x10..0x17)
\* sets Zero iff the 8-bit result it leaves in its operand is 0.
C36_RotateZero ==
    /\ (Len(pre) >= 1 /\ Fetched = 23 /\ Before.pc + 1 <= 65535) =>
           /\ cpu.fault = "none"
           /\ ~FlagZ(cpu) /\ ~FlagN(cpu) /\ ~FlagH(cpu)
           /\ FlagC(cpu) <=> BitOf(get8(Before.registers, <<"A">>), 7) = 1
    /\ (Len(pre) >= 1 /\ Fetched = 203 /\ CbEntry.op = "rl" /\ Before.pc + 2 <= 65535) =>
           LET r      == CbEntry.args[1]
               result == IF r = <<"(", "H", "L", ")">>
                         THEN MemGet(cpu.mem, Was(<<"H", "L">>))
                         ELSE get8(cpu.registers, r)
           IN  FlagZ(cpu) <=> (result = 0)

\* C37: the extended RL (0xCB 0x10..0x17) leaves its result, the operand v
\* rotated left by one bit (bit 0 taken from bit 7 or from the old Carry), in
\* the operand it read: the register r, or the memory byte at HL with HL
\* itself unchanged; Carry receives bit 7 of v.
C37_RotateWritesBack ==
    (Len(pre) >= 1 /\ Fetched = 203 /\ CbEntry.op = "rl" /\ Before.pc + 2 <= 65535) =>
        LET r       == CbEntry.args[1]
            v       == OperandValue(Before, r)
            results == {RotateLeft8(v),
                        ((2 * v) % 256) + (IF FlagC(Before) THEN 1 ELSE 0)}
        IN  /\ cpu.fault = "none"
            /\ IF r = <<"(", "H", "L", ")">>
               THEN /\ MemGet(cpu.mem, Was(<<"H", "L">>)) \in results
                    /\ Now(<<"H", "L">>) = Was(<<"H", "L">>)
               ELSE get8(cpu.registers, r) \in results
            /\ FlagC(cpu) <=> BitOf(v, 7) = 1

----------------------------------------------------------------------------
(* Properties of the timing automaton's counter and scanline register,      *)
(* checked under Spec                                                       *)

\* C38: after every gpu.step() the counter is strictly below the threshold
\* of the current phase, and it is 0 if the step changed the phase or the
\* line; no table cost exceeds 24 cycles, and a step that changes the phase
\* crossed the threshold of the phase it left, once.
C38_CounterBelowThreshold ==
    /\ \A i \in 1..256 : BaseCycles[i] <= 24 /\ CbCycles[i] <= 24
    /\ gpu.cycles < Threshold(gpu.mode)
    /\ (gpre.acted /\ turn = "cpu") =>
           LET old  == gpre.gpu
               cost == gpre.cpu.last_op_cycles
           IN  /\ cost <= 24
               /\ (gpu.mode # old.mode \/ gpu.drawing_line # old.drawing_line) =>
                      /\ gpu.cycles = 0
                      /\ old.cycles + cost >= Threshold(old.mode)
                      /\ old.cycles + cost < Threshold(old.mode) + 24
               /\ (gpu.mode = old.mode /\ gpu.drawing_line = old.drawing_line) =>
                      gpu.cycles = old.cycles + cost

C38_Witness ==
    /\ gpre.acted /\ turn = "cpu"
    /\ gpre.gpu.mode = "VRAM" /\ gpu.mode = "HBLANK"
    /\ gpre.cpu.last_op_cycles = 24
    /\ gpre.gpu.cycles + 24 > 172 /\ gpu.cycles = 0

\* C39: a gpu.step() that changes the drawing line leaves the scanline
\* register 0xFF44 equal to the new line, never 154; and once the register
\* equals the line it stays equal over every step in which cpu.step() does
\* not change the byte at 0xFF44.
C39_ScanlineRegister ==
    [][ LET ly  == MemGet(cpu.mem, 65348)
            ly2 == MemGet(cpu'.mem, 65348)
        IN  /\ (turn = "gpu" /\ gpu'.drawing_line # gpu.drawing_line) =>
                   (ly2 = gpu'.drawing_line /\ ly2 # 154)
            /\ (turn = "gpu" /\ gpu'.drawing_line = gpu.drawing_line) => ly2 = ly
            /\ turn = "cpu" => gpu'.drawing_line = gpu.drawing_line
            /\ (ly = gpu.drawing_line /\ (turn = "cpu" => ly2 = ly)) =>
                   ly2 = gpu'.drawing_line
      ]_vars

C39_Witness ==
    /\ gpre.acted /\ turn = "cpu"
    /\ gpre.gpu.mode = "VBLANK" /\ gpre.gpu.drawing_line = 153
    /\ MemGet(gpre.cpu.mem, 65348) = 153
    /\ gpu.mode = "OAM" /\ gpu.drawing_line = 0
    /\ MemGet(cpu.mem, 65348) = 0

----------------------------------------------------------------------------
(* Progress of the timing automaton.  Within an iteration of main_loop      *)
(* (main.rs 51-52) and of read_loop (82-83) gpu.step() follows cpu.step()   *)
(* with nothing in between, so once cpu.step() has returned the timing step *)
(* is made: weak fairness on that hand-over.  Between two iterations the    *)
(* loops may end (LoopEnd) and read_loop waits for a line on stdin, so the  *)
(* next cpu.step() is made only if the environment lets the loop go on;     *)
(* no fairness is assumed for it.                                           *)

LoopStep ==
    /\ turn = "gpu"
    /\ cpu.fault = "none"
    /\ turn' = "cpu"

SpecLive == Init /\ [][Next]_vars /\ WF_turn(LoopStep)

\* C40: in a run in which the loop goes on for ever (cpu.step() returns
\* again and again, the program neither aborts nor hangs) and every
\* gpu.step() consumes a cost of at least 4, the VBLANK phase is entered
\* again and again and the drawing line is 0 again and again.  The recorded
\* cost is 0 at power-on, a handler with an empty body leaves the recorded
\* cost as it was, and a gpu.step() that consumes the cost 0 leaves the
\* automaton as it was, so a run whose cost stays 0 makes no progress.
C40_FramesRecur ==
    /\ (/\ []<>(turn = "gpu")
        /\ [](cpu.fault = "none" /\ (turn = "gpu" => cpu.last_op_cycles >= 4)))
           => ([]<>(gpu.mode = "VBLANK") /\ []<>(gpu.drawing_line = 0))
    /\ [](pre = <<>> => cpu.last_op_cycles = 0)
    /\ [][(turn = "cpu" /\ Entry(cpu).op \in EmptyHandlers) =>
              cpu'.last_op_cycles = cpu.last_op_cycles]_vars
    /\ [][(turn = "gpu" /\ cpu.last_op_cycles = 0) => gpu' = gpu]_vars

C40_Witness ==
    /\ cpu.fault = "none" /\ turn = "cpu"
    /\ lclk.all4 /\ lclk.wrapped /\ lclk.frame > 0
    /\ gpu.mode = "VBLANK" /\ gpu.drawing_line = 143

====
